---- MODULE Spec2Model ----
(***************************************************************************)
(* The Whisper recording session of the fever proforma nurse agent.        *)
(*                                                                         *)
(* FeverProformaNurseAgent (src/live_nurse_agent.py) holds the session:    *)
(* the active flag whisper_recording, the chunk buffer whisper_frames and  *)
(* the handles whisper_audio_stream / whisper_pyaudio.  NurseAgentUI       *)
(* (src/gradio_ui.py) drives it from its button handlers and from one      *)
(* polling thread per started session (continuous_record).                 *)
(*                                                                         *)
(* Every Python statement that reads or writes a shared attribute is one   *)
(* step, so a thread switch can fall between any two of them.  The audio   *)
(* backend and the transcription service are the environment: a call into  *)
(* them returns or raises, nondeterministically.  close() on a stream that *)
(* stop_stream() has stopped is taken to return normally.                  *)
(*                                                                         *)
(* The text pipeline (extract_patient_data_from_speech,                    *)
(* format_patient_data_for_llm, generate_diagnosis_and_next_steps) is run  *)
(* by the process_* handlers of the UI and by the command-line run         *)
(* (run_flexible_assessment); the chat-completion service is environment.  *)
(*                                                                         *)
(* Spec     : the recording handlers are called one at a time (a call      *)
(*            returns before the next begins); the polling threads run     *)
(*            concurrently.                                                *)
(* SpecConc : two recording handler calls may overlap as well.             *)
(*            The first caller stops with stop_recording, the second with  *)
(*            stop_recording_only_speech.                                  *)
(* SpecPipe : the text pipeline, one call at a time.                       *)
(* SpecAll  : Spec and SpecPipe together, one call at a time.               *)
(* SpecLive : Spec, with a handler thread that keeps running.              *)
(* SpecPoll : Spec over a device that keeps delivering, every thread fair. *)
(*                                                                         *)
(* The command-line run has an agent of its own, constructed by main().    *)
(* Its continuous recording (start_continuous_recording, _audio_callback,  *)
(* stop_continuous_recording) runs on the calling thread and on one        *)
(* listener thread per listen_in_background call; the recognizer's         *)
(* listener calls _audio_callback on the listener thread, and its stopper  *)
(* joins that thread when called with wait_for_stop=True.                  *)
(*                                                                         *)
(* SpecLegacy : the continuous recording of the command-line agent.        *)
(***************************************************************************)
EXTENDS Integers, Sequences, FiniteSets, TLC

\* Bounds of the model.
MaxSessions == 2     \* start calls that get as far as creating a PyAudio instance
MaxChunks == 2       \* chunks the audio device delivers in a run
MaxChunksConc == 1   \* the same, when handler calls overlap
MaxListeners == 2    \* listen_in_background calls of the command-line agent
MaxAudio == 2        \* phrases its listeners capture in a run

Ctl == {"c1", "c2"}                 \* threads that run the UI handlers
Workers == 1..MaxSessions           \* polling threads, one per started session
None == 0                           \* Python's None for a handle or a thread
Listeners == 1..MaxListeners        \* listener threads of the command-line agent

VARIABLES
    PYAUDIO_AVAILABLE,      \* module flag set at import
    API_KEY,                \* environment: the credential is present when the agent is constructed
    initialized,            \* UI: the agent was constructed
    whisper_recording,      \* agent: the session's active flag
    whisper_frames,         \* agent: the captured chunks, in order
    whisper_audio_stream,   \* agent: handle of the input stream, or None
    whisper_pyaudio,        \* agent: handle of the PyAudio instance, or None
    is_recording,           \* UI: recording flag
    recording_thread,       \* UI: the last polling thread started, or None
    openStreams,            \* backend: input streams opened and not closed
    livePyAudio,            \* backend: PyAudio instances not terminated
    nstarts,                \* backend: PyAudio instances created so far
    nchunks,                \* backend: chunks delivered so far
    pc,                     \* handler thread: the statement it is at
    handler,                \* handler thread: the handler it runs / ran last
    res,                    \* handler thread: (success, message) of start_whisper_recording
    text,                   \* handler thread: transcribed_text / return value of stop_whisper_recording
    payload,                \* handler thread: the frames written to the WAV file
    calls,                  \* handler thread: transcription requests issued by this call
    sess,                   \* handler thread: the PyAudio instance / stream / thread this call created
    out,                    \* handler thread: status message the handler returned
    patient_data,           \* handler thread: the field mapping extracted or built from the form
    formatted_data,         \* handler thread: the prompt text handed to the diagnosis request
    diagnosis,              \* handler thread: return value of generate_diagnosis_and_next_steps
    requests,               \* handler thread: chat-completion requests issued by this call
    wpc,                    \* polling thread: the statement it is at
    wstream,                \* polling thread: the stream whose read() it is in
    wdata,                  \* polling thread: the chunk read and not yet appended
    wlive,                  \* polling thread: both flags were set when that chunk was read (history)
    speech_enabled,         \* command-line agent: recognizer and microphone were set up
    is_recording_active,    \* command-line agent: the continuous recording's active flag
    recorded_audio_chunks,  \* command-line agent: the phrases stored by _audio_callback
    full_transcription,     \* command-line agent: the text built by _audio_callback
    stop_listening,         \* command-line agent: stopper of the last listener, or None
    running,                \* listener thread: its stopper has not been called
    naudio,                 \* microphone: phrases captured so far
    nlisten,                \* recognizer: listen_in_background attempts so far
    kpc,                    \* calling thread: the statement it is at
    kret,                   \* calling thread: what the call returned
    lpc,                    \* listener thread: the statement it is at
    laudio,                 \* listener thread: the phrase handed to _audio_callback
    ltext,                  \* listener thread: chunk_text
    heard                   \* the texts _audio_callback recognized since the last start (history)

agent == <<whisper_recording, whisper_frames, whisper_audio_stream, whisper_pyaudio>>
ui == <<is_recording, recording_thread>>
backend == <<openStreams, livePyAudio, nstarts, nchunks>>
locals == <<pc, handler, res, text, payload, calls, sess, out>>
worker == <<wpc, wstream, wdata, wlive>>
setup == <<PYAUDIO_AVAILABLE, API_KEY, initialized>>
pipe == <<patient_data, formatted_data, diagnosis, requests>>
legacy == <<speech_enabled, is_recording_active, recorded_audio_chunks, full_transcription,
            stop_listening, running, naudio, nlisten, kpc, kret, lpc, laudio, ltext, heard>>
vars == <<setup, legacy, agent, ui, backend, locals, worker, pipe>>


\* What a handler thread holds before it has returned anything.
NoResult == <<>>
\* What the calling thread of the command-line agent holds before a call has returned.
NoReturn == [kind |-> "none", text |-> <<>>]
NoOutput == [handler |-> "none", msg |-> <<>>, transcribed |-> "", start_btn |-> TRUE, stop_btn |-> FALSE]

\* A chunk read from stream s, the k-th the device delivered: one block of samples.
Chunk(s, k) == << [src |-> s, n |-> k] >>

\* b''.join(frames): the chunks' samples, concatenated in buffer order.
RECURSIVE Join(_)
Join(frames) ==
    IF frames = <<>> THEN <<>> ELSE Head(frames) \o Join(Tail(frames))

\* What the transcription service may answer (transcript.text), and str.strip() of it.
Transcripts == {"", "  ", "fever for three days", " No fever since Monday "}
Strip(t) ==
    CASE t = "  " -> ""
      [] t = " No fever since Monday " -> "No fever since Monday"
      [] OTHER -> t

\* Python's None where a text is expected, and str() of a value inside an f-string.
PyNone == "<None>"
Str(v) == IF v = PyNone THEN "None" ELSE v

\* bool() of a text or None: the empty text and None are false.
Truthy(v) == v \notin {"", PyNone}

\* dict.get(k, d), and the dict d with the key k set to v.
Get(d, k, default) == IF k \in DOMAIN d THEN d[k] ELSE default
Put(d, k, v) == [x \in DOMAIN d \cup {k} |-> IF x = k THEN v ELSE d[x]]

\* What a handler thread holds of the text pipeline before it has built anything.
NoData == <<>>
NoText == <<>>

\* The constructor with the credential check of lines 47-50 left out.
AgentWithoutKeyCheck(key) == "constructed"

\* live_nurse_agent.py 47-52: without a credential the constructor raises ValueError;
\* openai.OpenAI(api_key=...) with a key is taken to return normally.
FeverProformaNurseAgent(key) == IF ~key THEN "ValueError" ELSE "constructed"

\* gradio_ui.py 19-28: the UI is initialized exactly when the agent's constructor returned.
NurseAgentUI(key) == FeverProformaNurseAgent(key) = "constructed"

Init ==
    /\ PYAUDIO_AVAILABLE \in BOOLEAN
    /\ API_KEY \in BOOLEAN
    /\ initialized = NurseAgentUI(API_KEY)
    /\ patient_data = [c \in Ctl |-> NoData]
    /\ formatted_data = [c \in Ctl |-> NoText]
    /\ diagnosis = [c \in Ctl |-> ""]
    /\ requests = [c \in Ctl |-> <<>>]
    /\ whisper_recording = FALSE
    /\ whisper_frames = <<>>
    /\ whisper_audio_stream = None
    /\ whisper_pyaudio = None
    /\ is_recording = FALSE
    /\ recording_thread = None
    /\ openStreams = {}
    /\ livePyAudio = {}
    /\ nstarts = 0
    /\ nchunks = 0
    /\ pc = [c \in Ctl |-> "idle"]
    /\ handler = [c \in Ctl |-> "none"]
    /\ res = [c \in Ctl |-> NoResult]
    /\ text = [c \in Ctl |-> ""]
    /\ payload = [c \in Ctl |-> <<>>]
    /\ calls = [c \in Ctl |-> 0]
    /\ sess = [c \in Ctl |-> None]
    /\ out = [c \in Ctl |-> NoOutput]
    /\ wpc = [w \in Workers |-> "unborn"]
    /\ wstream = [w \in Workers |-> None]
    /\ wdata = [w \in Workers |-> <<>>]
    /\ wlive = [w \in Workers |-> FALSE]
    /\ speech_enabled = FALSE
    /\ is_recording_active = FALSE
    /\ recorded_audio_chunks = <<>>
    /\ full_transcription = <<>>
    /\ stop_listening = None
    /\ running = [l \in Listeners |-> FALSE]
    /\ naudio = 0
    /\ nlisten = 0
    /\ kpc = "main"
    /\ kret = NoReturn
    /\ lpc = [l \in Listeners |-> "unborn"]
    /\ laudio = [l \in Listeners |-> None]
    /\ ltext = [l \in Listeners |-> <<>>]
    /\ heard = <<>>

\* A handler call begins on an idle thread.
Enter(c, h, at) ==
    /\ pc' = [pc EXCEPT ![c] = at]
    /\ handler' = [handler EXCEPT ![c] = h]

\* A handler returns its outputs; its locals are gone.
Return(c, h, o) ==
    /\ pc' = [pc EXCEPT ![c] = "returned"]
    /\ handler' = [handler EXCEPT ![c] = "none"]
    /\ res' = [res EXCEPT ![c] = NoResult]
    /\ text' = [text EXCEPT ![c] = ""]
    /\ payload' = [payload EXCEPT ![c] = <<>>]
    /\ calls' = [calls EXCEPT ![c] = 0]
    /\ sess' = [sess EXCEPT ![c] = None]
    /\ out' = [out EXCEPT ![c] = [handler |-> h] @@ o]

Goto(c, at) == pc' = [pc EXCEPT ![c] = at]

\* Start calls that may still create a PyAudio instance.
StartsPending == Cardinality({c \in Ctl : pc[c] \in {"start_guard", "start_pyaudio"}})

(***************************************************************************)
(* NurseAgentUI.start_recording                                            *)
(***************************************************************************)

\* gradio_ui.py 37-38: an uninitialized UI turns the start away.
UIStartNotInitialized(c) ==
    /\ pc[c] = "idle"
    /\ ~initialized
    /\ Return(c, "start_recording",
              [msg |-> <<"System not initialized properly">>,
               transcribed |-> "", start_btn |-> TRUE, stop_btn |-> FALSE])
    /\ UNCHANGED <<setup, legacy, pipe, agent, ui, backend, worker>>

\* gradio_ui.py 40-45: rejected while the UI flag is set, else the agent is called.
UIStartRecording(c) ==
    /\ pc[c] = "idle"
    /\ initialized
    /\ nstarts + StartsPending < MaxSessions
    /\ IF is_recording
       THEN Return(c, "start_recording",
                   [msg |-> <<"Already recording! Click stop to end recording.">>,
                    transcribed |-> "", start_btn |-> FALSE, stop_btn |-> TRUE])
       ELSE /\ Enter(c, "start_recording", "start_guard")
            /\ UNCHANGED <<res, text, payload, calls, sess, out>>
    /\ UNCHANGED <<setup, legacy, pipe, agent, ui, backend, worker>>

\* StartGuard with the frame reset of line 485 moved above the guards.
StartGuardResetsFrames(c) ==
    /\ pc[c] = "start_guard"
    /\ whisper_frames' = <<>>
    /\ IF ~PYAUDIO_AVAILABLE
       THEN /\ res' = [res EXCEPT ![c] = <<FALSE, "PyAudio not available for Whisper recording">>]
            /\ Goto(c, "ui_start_result")
       ELSE IF whisper_recording
       THEN /\ res' = [res EXCEPT ![c] = <<FALSE, "Already recording with Whisper">>]
            /\ Goto(c, "ui_start_result")
       ELSE /\ res' = res
            /\ Goto(c, "start_pyaudio")
    /\ UNCHANGED <<setup, legacy, pipe, whisper_recording, whisper_audio_stream, whisper_pyaudio,
                   ui, backend, worker, handler, text, payload, calls, sess, out>>

\* live_nurse_agent.py 465-469: the two guards of start_whisper_recording.
StartGuard(c) ==
    /\ pc[c] = "start_guard"
    /\ IF ~PYAUDIO_AVAILABLE
       THEN /\ res' = [res EXCEPT ![c] = <<FALSE, "PyAudio not available for Whisper recording">>]
            /\ Goto(c, "ui_start_result")
       ELSE IF whisper_recording
       THEN /\ res' = [res EXCEPT ![c] = <<FALSE, "Already recording with Whisper">>]
            /\ Goto(c, "ui_start_result")
       ELSE /\ res' = res
            /\ Goto(c, "start_pyaudio")
    /\ UNCHANGED <<setup, legacy, pipe, agent, ui, backend, worker,
                   handler, text, payload, calls, sess, out>>

\* live_nurse_agent.py 473 (491-492 when it raises): self.whisper_pyaudio = pyaudio.PyAudio().
\* The new instance, the stream opened on it and the thread started for it share one id.
StartPyAudio(c) ==
    /\ pc[c] = "start_pyaudio"
    /\ nstarts < MaxSessions
    /\ nstarts' = nstarts + 1
    /\ \E ok \in BOOLEAN :
         IF ok
         THEN /\ whisper_pyaudio' = nstarts + 1
              /\ livePyAudio' = livePyAudio \cup {nstarts + 1}
              /\ sess' = [sess EXCEPT ![c] = nstarts + 1]
              /\ res' = res
              /\ Goto(c, "start_open")
         ELSE /\ UNCHANGED <<whisper_pyaudio, livePyAudio, sess>>
              /\ res' = [res EXCEPT ![c] = <<FALSE, "Error starting Whisper recording: PyAudio">>]
              /\ Goto(c, "ui_start_result")
    /\ UNCHANGED <<setup, legacy, pipe, whisper_recording, whisper_frames, whisper_audio_stream,
                   ui, openStreams, nchunks, worker, handler, text, payload, calls, out>>

\* StartOpen with the buffer emptied before the stream is opened.
StartOpenAfterReset(c) ==
    /\ pc[c] = "start_open"
    /\ whisper_frames' = <<>>
    /\ \E ok \in BOOLEAN :
         IF ok
         THEN /\ whisper_audio_stream' = sess[c]
              /\ openStreams' = openStreams \cup {sess[c]}
              /\ res' = res
              /\ Goto(c, "start_reset")
         ELSE /\ UNCHANGED <<whisper_audio_stream, openStreams>>
              /\ res' = [res EXCEPT ![c] = <<FALSE, "Error starting Whisper recording: open">>]
              /\ Goto(c, "ui_start_result")
    /\ UNCHANGED <<setup, legacy, pipe, whisper_recording, whisper_pyaudio,
                   ui, livePyAudio, nstarts, nchunks, worker, handler, text, payload, calls,
                   sess, out>>

\* live_nurse_agent.py 476-482 (491-492 when it raises): the input stream is opened.
StartOpen(c) ==
    /\ pc[c] = "start_open"
    /\ \E ok \in BOOLEAN :
         IF ok
         THEN /\ whisper_audio_stream' = sess[c]
              /\ openStreams' = openStreams \cup {sess[c]}
              /\ res' = res
              /\ Goto(c, "start_reset")
         ELSE /\ UNCHANGED <<whisper_audio_stream, openStreams>>
              /\ res' = [res EXCEPT ![c] = <<FALSE, "Error starting Whisper recording: open">>]
              /\ Goto(c, "ui_start_result")
    /\ UNCHANGED <<setup, legacy, pipe, whisper_recording, whisper_frames, whisper_pyaudio,
                   ui, livePyAudio, nstarts, nchunks, worker, handler, text, payload, calls,
                   sess, out>>

\* live_nurse_agent.py 485: self.whisper_frames = [].
StartResetFrames(c) ==
    /\ pc[c] = "start_reset"
    /\ whisper_frames' = <<>>
    /\ Goto(c, "start_flag")
    /\ UNCHANGED <<setup, legacy, pipe, whisper_recording, whisper_audio_stream, whisper_pyaudio,
                   ui, backend, worker, handler, res, text, payload, calls, sess, out>>

\* live_nurse_agent.py 486-489: self.whisper_recording = True; return True, ...
StartSetFlag(c) ==
    /\ pc[c] = "start_flag"
    /\ whisper_recording' = TRUE
    /\ res' = [res EXCEPT ![c] = <<TRUE, "Whisper recording started successfully">>]
    /\ Goto(c, "ui_start_result")
    /\ UNCHANGED <<setup, legacy, pipe, whisper_frames, whisper_audio_stream, whisper_pyaudio,
                   ui, backend, worker, handler, text, payload, calls, sess, out>>

\* gradio_ui.py 47-48, 62-63: the UI flag is set on success, else the failure is returned.
UIStartResult(c) ==
    /\ pc[c] = "ui_start_result"
    /\ IF res[c][1]
       THEN /\ is_recording' = TRUE
            /\ Goto(c, "ui_start_thread")
            /\ UNCHANGED <<handler, res, text, payload, calls, sess, out>>
       ELSE /\ is_recording' = is_recording
            /\ Return(c, handler[c],
                      [msg |-> <<"Failed to start recording: ", res[c][2]>>,
                       transcribed |-> "", start_btn |-> TRUE, stop_btn |-> FALSE])
    /\ UNCHANGED <<setup, legacy, pipe, agent, recording_thread, backend, worker>>

\* gradio_ui.py 51-61: the polling thread is created and started.
UIStartThread(c) ==
    /\ pc[c] = "ui_start_thread"
    /\ recording_thread' = sess[c]
    /\ wpc' = [wpc EXCEPT ![sess[c]] = "while"]
    /\ Return(c, handler[c],
              [msg |-> <<"Recording started with Whisper! Speak now... Click STOP when finished.">>,
               transcribed |-> "", start_btn |-> FALSE, stop_btn |-> TRUE])
    /\ UNCHANGED <<setup, legacy, pipe, agent, is_recording, backend, wstream, wdata, wlive>>

(***************************************************************************)
(* continuous_record, the polling thread, and record_audio_continuously    *)
(***************************************************************************)

\* gradio_ui.py 52: while self.is_recording.
ContinuousRecord(w) ==
    /\ wpc[w] = "while"
    /\ wpc' = [wpc EXCEPT ![w] = IF is_recording THEN "guard" ELSE "done"]
    /\ UNCHANGED <<setup, legacy, pipe, agent, ui, backend, locals, wstream, wdata, wlive>>

\* live_nurse_agent.py 501-502: no session or no stream returns False (gradio_ui.py 53-54: break).
RecordGuard(w) ==
    /\ wpc[w] = "guard"
    /\ wpc' = [wpc EXCEPT ![w] =
                 IF ~whisper_recording \/ whisper_audio_stream = None THEN "done" ELSE "call"]
    /\ UNCHANGED <<setup, legacy, pipe, agent, ui, backend, locals, wstream, wdata, wlive>>

\* live_nurse_agent.py 505: self.whisper_audio_stream is looked up and its read() called;
\* on None the lookup of read raises (508-510: return False; gradio_ui.py 53-54: break).
RecordReadCall(w) ==
    /\ wpc[w] = "call"
    /\ IF whisper_audio_stream = None
       THEN /\ wpc' = [wpc EXCEPT ![w] = "done"]
            /\ wstream' = wstream
       ELSE /\ wpc' = [wpc EXCEPT ![w] = "read"]
            /\ wstream' = [wstream EXCEPT ![w] = whisper_audio_stream]
    /\ UNCHANGED <<setup, legacy, pipe, agent, ui, backend, locals, wdata, wlive>>

\* live_nurse_agent.py 505: the read of an open stream delivers a chunk.
RecordReadData(w) ==
    /\ wpc[w] = "read"
    /\ wstream[w] \in openStreams
    /\ nchunks < MaxChunks
    /\ nchunks' = nchunks + 1
    /\ wdata' = [wdata EXCEPT ![w] = Chunk(wstream[w], nchunks + 1)]
    /\ wlive' = [wlive EXCEPT ![w] = is_recording /\ whisper_recording]
    /\ wstream' = [wstream EXCEPT ![w] = None]
    /\ wpc' = [wpc EXCEPT ![w] = "append"]
    /\ UNCHANGED <<setup, legacy, pipe, agent, ui, openStreams, livePyAudio, nstarts, locals>>

\* live_nurse_agent.py 505, 508-510: the read raises, the stream closed by now or the device
\* failing; the call returns False (gradio_ui.py 53-54: break).
RecordReadError(w) ==
    /\ wpc[w] = "read"
    /\ wstream' = [wstream EXCEPT ![w] = None]
    /\ wpc' = [wpc EXCEPT ![w] = "done"]
    /\ UNCHANGED <<setup, legacy, pipe, agent, ui, backend, locals, wdata, wlive>>

\* RecordAppend with the chunk put at the front of the buffer.
RecordAppendAtFront(w) ==
    /\ wpc[w] = "append"
    /\ whisper_frames' = <<wdata[w]>> \o whisper_frames
    /\ wdata' = [wdata EXCEPT ![w] = <<>>]
    /\ wlive' = [wlive EXCEPT ![w] = FALSE]
    /\ wpc' = [wpc EXCEPT ![w] = "while"]
    /\ UNCHANGED <<setup, legacy, pipe, whisper_recording, whisper_audio_stream, whisper_pyaudio,
                   ui, backend, locals, wstream>>

\* live_nurse_agent.py 506-507: self.whisper_frames.append(data); return True
\* (gradio_ui.py 55: sleep, then the loop test again).
RecordAppend(w) ==
    /\ wpc[w] = "append"
    /\ whisper_frames' = Append(whisper_frames, wdata[w])
    /\ wdata' = [wdata EXCEPT ![w] = <<>>]
    /\ wlive' = [wlive EXCEPT ![w] = FALSE]
    /\ wpc' = [wpc EXCEPT ![w] = "while"]
    /\ UNCHANGED <<setup, legacy, pipe, whisper_recording, whisper_audio_stream, whisper_pyaudio,
                   ui, backend, locals, wstream>>

(***************************************************************************)
(* NurseAgentUI.stop_recording / stop_recording_only_speech                *)
(***************************************************************************)

\* str.startswith on the texts stop_whisper_recording can return.
StartsWith(t, p) ==
    <<t, p>> \in {<<"No Whisper recording in progress", "No">>,
                  <<"No audio data recorded", "No">>,
                  <<"No speech detected in recording", "No">>,
                  <<"No fever since Monday", "No">>,
                  <<"Error transcribing with Whisper: service error", "Error">>,
                  <<"Error stopping Whisper recording: stream error", "Error">>,
                  <<"No audio was recorded", "No">>,
                  <<"Error starting recording: no device", "Error">>,
                  <<"Error stopping recording: device error", "Error">>,
                  <<"Error generating diagnosis: service error", "Error">>,
                  <<"Error starting Whisper recording: PyAudio", "Error">>,
                  <<"Error starting Whisper recording: open", "Error">>}

\* gradio_ui.py 75-76, 113-114: a stop while the UI flag is clear is turned away.
UIStop(c, h) ==
    /\ pc[c] = "idle"
    /\ IF ~is_recording
       THEN Return(c, h, [msg |-> <<"Not currently recording">>,
                          transcribed |-> "", start_btn |-> TRUE, stop_btn |-> FALSE])
       ELSE /\ Enter(c, h, "ui_stop_flag")
            /\ UNCHANGED <<res, text, payload, calls, sess, out>>
    /\ UNCHANGED <<setup, legacy, pipe, agent, ui, backend, worker>>

UIStopRecording(c) == UIStop(c, "stop_recording")

UIStopRecordingOnlySpeech(c) == UIStop(c, "stop_recording_only_speech")

\* gradio_ui.py 80, 118: self.is_recording = False.
UIStopClearFlag(c) ==
    /\ pc[c] = "ui_stop_flag"
    /\ is_recording' = FALSE
    /\ Goto(c, "ui_stop_join")
    /\ UNCHANGED <<setup, legacy, pipe, agent, recording_thread, backend, worker,
                   handler, res, text, payload, calls, sess, out>>

\* UIStopJoin with a join that has no timeout: it returns when the thread has ended.
UIStopJoinWaits(c) ==
    /\ pc[c] = "ui_stop_join"
    /\ recording_thread # None => wpc[recording_thread] = "done"
    /\ Goto(c, "stop_guard")
    /\ UNCHANGED <<setup, legacy, pipe, agent, ui, backend, worker,
                   handler, res, text, payload, calls, sess, out>>

\* gradio_ui.py 83-84, 121-122: join(timeout=2) returns when the thread has ended or when
\* the two seconds are over, whichever comes first; the handler goes on either way.
UIStopJoin(c) ==
    /\ pc[c] = "ui_stop_join"
    /\ Goto(c, "stop_guard")
    /\ UNCHANGED <<setup, legacy, pipe, agent, ui, backend, worker,
                   handler, res, text, payload, calls, sess, out>>

\* StopGuard without the test of line 519.
StopGuardMissing(c) ==
    /\ pc[c] = "stop_guard"
    /\ text' = text
    /\ Goto(c, "stop_flag")
    /\ UNCHANGED <<setup, legacy, pipe, agent, ui, backend, worker,
                   handler, res, payload, calls, sess, out>>

\* live_nurse_agent.py 519-520: stop_whisper_recording with no session in progress.
StopGuard(c) ==
    /\ pc[c] = "stop_guard"
    /\ IF ~whisper_recording
       THEN /\ text' = [text EXCEPT ![c] = "No Whisper recording in progress"]
            /\ Goto(c, "ui_stop_result")
       ELSE /\ text' = text
            /\ Goto(c, "stop_flag")
    /\ UNCHANGED <<setup, legacy, pipe, agent, ui, backend, worker,
                   handler, res, payload, calls, sess, out>>

\* live_nurse_agent.py 524: self.whisper_recording = False.
StopClearFlag(c) ==
    /\ pc[c] = "stop_flag"
    /\ whisper_recording' = FALSE
    /\ Goto(c, "stop_close")
    /\ UNCHANGED <<setup, legacy, pipe, whisper_frames, whisper_audio_stream, whisper_pyaudio,
                   ui, backend, worker, handler, res, text, payload, calls, sess, out>>

\* live_nurse_agent.py 527-530: the stream the agent holds is stopped, closed and forgotten.
StopCloseStream(c) ==
    /\ pc[c] = "stop_close"
    /\ openStreams' = openStreams \ {whisper_audio_stream}
    /\ whisper_audio_stream' = None
    /\ Goto(c, "stop_terminate")
    /\ UNCHANGED <<setup, legacy, pipe, whisper_recording, whisper_frames, whisper_pyaudio,
                   ui, livePyAudio, nstarts, nchunks, worker,
                   handler, res, text, payload, calls, sess, out>>

\* live_nurse_agent.py 528, 585-586: stop_stream() raised; the handler of line 585 returns
\* the error text, the stream still open and its handle still held.
StopCloseStreamError(c) ==
    /\ pc[c] = "stop_close"
    /\ whisper_audio_stream # None
    /\ text' = [text EXCEPT ![c] = "Error stopping Whisper recording: stream error"]
    /\ Goto(c, "ui_stop_result")
    /\ UNCHANGED <<setup, legacy, pipe, agent, ui, backend, worker,
                   handler, res, payload, calls, sess, out>>

\* live_nurse_agent.py 533-535: the PyAudio instance the agent holds is terminated and forgotten.
StopTerminate(c) ==
    /\ pc[c] = "stop_terminate"
    /\ livePyAudio' = livePyAudio \ {whisper_pyaudio}
    /\ whisper_pyaudio' = None
    /\ Goto(c, "stop_check")
    /\ UNCHANGED <<setup, legacy, pipe, whisper_recording, whisper_frames, whisper_audio_stream,
                   ui, openStreams, nstarts, nchunks, worker,
                   handler, res, text, payload, calls, sess, out>>

\* live_nurse_agent.py 534, 585-586: terminate() raised; the instance stays and its handle
\* is still held.
StopTerminateError(c) ==
    /\ pc[c] = "stop_terminate"
    /\ whisper_pyaudio # None
    /\ text' = [text EXCEPT ![c] = "Error stopping Whisper recording: stream error"]
    /\ Goto(c, "ui_stop_result")
    /\ UNCHANGED <<setup, legacy, pipe, agent, ui, backend, worker,
                   handler, res, payload, calls, sess, out>>

\* StopCheckFrames without the test of line 540.
StopCheckFramesMissing(c) ==
    /\ pc[c] = "stop_check"
    /\ text' = text
    /\ Goto(c, "stop_wav")
    /\ UNCHANGED <<setup, legacy, pipe, agent, ui, backend, worker,
                   handler, res, payload, calls, sess, out>>

\* live_nurse_agent.py 540-541: nothing captured.
StopCheckFrames(c) ==
    /\ pc[c] = "stop_check"
    /\ IF whisper_frames = <<>>
       THEN /\ text' = [text EXCEPT ![c] = "No audio data recorded"]
            /\ Goto(c, "ui_stop_result")
       ELSE /\ text' = text
            /\ Goto(c, "stop_wav")
    /\ UNCHANGED <<setup, legacy, pipe, agent, ui, backend, worker,
                   handler, res, payload, calls, sess, out>>

\* live_nurse_agent.py 544-552: the WAV file gets b''.join(self.whisper_frames).
StopWriteWav(c) ==
    /\ pc[c] = "stop_wav"
    /\ payload' = [payload EXCEPT ![c] = Join(whisper_frames)]
    /\ Goto(c, "stop_transcribe")
    /\ UNCHANGED <<setup, legacy, pipe, agent, ui, backend, worker,
                   handler, res, text, calls, sess, out>>

\* live_nurse_agent.py 544-552, 585-586: the temporary file could not be written.
StopWriteWavError(c) ==
    /\ pc[c] = "stop_wav"
    /\ text' = [text EXCEPT ![c] = "Error stopping Whisper recording: stream error"]
    /\ Goto(c, "ui_stop_result")
    /\ UNCHANGED <<setup, legacy, pipe, agent, ui, backend, worker,
                   handler, res, payload, calls, sess, out>>

\* live_nurse_agent.py 557-565: the transcription request; transcript.text.strip().
StopTranscribe(c) ==
    /\ pc[c] = "stop_transcribe"
    /\ calls' = [calls EXCEPT ![c] = calls[c] + 1]
    /\ \E t \in Transcripts :
         /\ text' = [text EXCEPT ![c] = Strip(t)]
         /\ Goto(c, "stop_reset")
    /\ UNCHANGED <<setup, legacy, pipe, agent, ui, backend, worker,
                   handler, res, payload, sess, out>>

\* StopTranscribeError followed by another attempt: the handler is back at the request.
StopTranscribeErrorRetries(c) ==
    /\ pc[c] = "stop_transcribe"
    /\ calls' = [calls EXCEPT ![c] = calls[c] + 1]
    /\ UNCHANGED <<setup, legacy, pipe, agent, ui, backend, worker,
                   pc, handler, res, text, payload, sess, out>>

\* StopTranscribeError without the except of lines 579-586: the exception leaves
\* stop_whisper_recording and the handler.
StopTranscribeErrorEscapes(c) ==
    /\ pc[c] = "stop_transcribe"
    /\ calls' = [calls EXCEPT ![c] = calls[c] + 1]
    /\ Goto(c, "raised")
    /\ UNCHANGED <<setup, legacy, pipe, agent, ui, backend, worker,
                   handler, res, text, payload, sess, out>>

\* live_nurse_agent.py 579-583: the transcription request raised.
StopTranscribeError(c) ==
    /\ pc[c] = "stop_transcribe"
    /\ calls' = [calls EXCEPT ![c] = calls[c] + 1]
    /\ text' = [text EXCEPT ![c] = "Error transcribing with Whisper: service error"]
    /\ Goto(c, "ui_stop_result")
    /\ UNCHANGED <<setup, legacy, pipe, agent, ui, backend, worker,
                   handler, res, payload, sess, out>>

\* live_nurse_agent.py 572: self.whisper_frames = [].
StopResetFrames(c) ==
    /\ pc[c] = "stop_reset"
    /\ whisper_frames' = <<>>
    /\ Goto(c, "stop_return")
    /\ UNCHANGED <<setup, legacy, pipe, whisper_recording, whisper_audio_stream, whisper_pyaudio,
                   ui, backend, worker, handler, res, text, payload, calls, sess, out>>

\* live_nurse_agent.py 574-577: an empty transcript is reported as no speech.
StopReturn(c) ==
    /\ pc[c] = "stop_return"
    /\ text' = [text EXCEPT ![c] =
                  IF text[c] = "" THEN "No speech detected in recording" ELSE text[c]]
    /\ Goto(c, "ui_stop_result")
    /\ UNCHANGED <<setup, legacy, pipe, agent, ui, backend, worker,
                   handler, res, payload, calls, sess, out>>

\* gradio_ui.py 89-90, 127-132: a text with a failure prefix is a failed recording; else
\* stop_recording_only_speech returns the text and stop_recording goes on to extract.
UIStopResult(c) ==
    /\ pc[c] = "ui_stop_result"
    /\ IF \E p \in {"Error", "Could not", "No"} : StartsWith(text[c], p)
       THEN Return(c, handler[c],
                   [msg |-> <<"Recording failed: ", text[c]>>,
                    transcribed |-> "", start_btn |-> TRUE, stop_btn |-> FALSE])
       ELSE IF handler[c] = "stop_recording_only_speech"
       THEN Return(c, handler[c],
                   [msg |-> <<"Recording completed with Whisper!">>,
                    transcribed |-> text[c], start_btn |-> TRUE, stop_btn |-> FALSE])
       ELSE /\ Goto(c, "ui_stop_extract")
            /\ UNCHANGED <<handler, res, text, payload, calls, sess, out>>
    /\ UNCHANGED <<setup, legacy, pipe, agent, ui, backend, worker>>

\* gradio_ui.py 93-100: the patient data is extracted and formatted, and the text returned.
UIStopExtract(c) ==
    /\ pc[c] = "ui_stop_extract"
    /\ Return(c, handler[c],
              [msg |-> <<"Recording stopped and processed with Whisper!">>,
               transcribed |-> text[c], start_btn |-> TRUE, stop_btn |-> FALSE])
    /\ UNCHANGED <<setup, legacy, pipe, agent, ui, backend, worker>>

\* gradio_ui.py 541-570: the returned outputs are handed to the page's components, and the
\* thread is free for the next event.
Deliver(c) ==
    /\ pc[c] = "returned"
    /\ pc' = [pc EXCEPT ![c] = "idle"]
    /\ out' = [out EXCEPT ![c] = NoOutput]
    /\ UNCHANGED <<setup, legacy, pipe, agent, ui, backend, worker,
                   handler, res, text, payload, calls, sess>>

(***************************************************************************)
(* The text pipeline: extraction, formatting, diagnosis                    *)
(***************************************************************************)

\* datetime.now().strftime("%Y-%m-%d").
Today == "2025-01-06"

\* live_nurse_agent.py 179-235: the fields the proforma text renders with 'Not provided'
\* when the mapping has no such key.
NotProvidedFields ==
    {"name", "age", "gender", "date", "occupation", "address",
     "fever_present", "duration", "onset",
     "fever_frequency", "fever_timing", "max_temperature",
     "chills_shivering", "sweating", "fatigue", "headache", "muscle_pain", "joint_pain",
     "rash", "cough", "sore_throat", "nasal_discharge", "abdominal_pain",
     "nausea_vomiting", "diarrhea", "urinary_symptoms", "fever_progression",
     "chronic_illnesses", "previous_fever_infections",
     "allergies", "current_medications", "fever_treatment_history",
     "smoking", "alcohol", "travel_history", "living_conditions",
     "contact_with_sick", "mosquito_exposure", "contaminated_food_water"}

\* live_nurse_agent.py 205, 207: the two lines that are rendered only for a truthy value.
ConditionalFields == {"rash_description", "sputum_present"}

TemplateFields == NotProvidedFields \cup ConditionalFields \cup {"additional_notes"}

\* The proforma text with another placeholder for a missing field.
FormatWithOtherPlaceholder(d) ==
    [k \in TemplateFields |->
       IF k \in ConditionalFields
       THEN IF Truthy(Get(d, k, PyNone)) THEN Str(Get(d, k, "")) ELSE ""
       ELSE IF k = "additional_notes" THEN Str(Get(d, k, "None provided"))
       ELSE Str(Get(d, k, "Not mentioned"))]

\* live_nurse_agent.py 175-240: the proforma text, as what it renders for each field of the
\* template; the headings and labels between the fields are fixed.
format_patient_data_for_llm(d) ==
    [k \in TemplateFields |->
       IF k \in ConditionalFields
       THEN IF Truthy(Get(d, k, PyNone)) THEN Str(Get(d, k, "")) ELSE ""
       ELSE IF k = "additional_notes" THEN Str(Get(d, k, "None provided"))
       ELSE Str(Get(d, k, "Not provided"))]

\* How often the placeholder 'Not provided' occurs in a proforma text.
NotProvidedCount(proforma) ==
    Cardinality({k \in DOMAIN proforma : proforma[k] = "Not provided"})

\* gradio_ui.py 203-209: the arguments of process_form_input, by the component they come
\* from (455-533).
Textboxes == {"name", "age", "duration", "max_temp", "chronic_illnesses", "allergies",
              "current_medications", "travel_history", "additional_notes"}
Dropdowns == {"gender", "onset", "fever_frequency", "fever_timing", "fever_progression"}
Radios == {"fever_present", "chills", "sweating", "fatigue", "headache", "muscle_pain",
           "joint_pain", "rash", "cough", "sore_throat", "nasal_discharge", "abdominal_pain",
           "nausea_vomiting", "diarrhea", "urinary_symptoms", "smoking", "alcohol"}
FormArgs == Textboxes \cup Dropdowns \cup Radios

\* Forms a call may carry: every argument the empty text; text boxes empty and nothing
\* selected; the page as it loads (459-524: fever_present "Yes", the other radios "No");
\* a page with some answers.
EmptyForm == [a \in FormArgs |-> ""]
UnselectedForm == [a \in FormArgs |-> IF a \in Textboxes THEN "" ELSE PyNone]
UntouchedForm ==
    [a \in FormArgs |->
       IF a \in Textboxes THEN ""
       ELSE IF a \in Dropdowns THEN PyNone
       ELSE IF a = "fever_present" THEN "Yes" ELSE "No"]
FilledForm ==
    [a \in FormArgs |->
       CASE a = "name" -> "Asha"
         [] a = "age" -> "34"
         [] a = "gender" -> "Female"
         [] a = "duration" -> "three days"
         [] a = "rash" -> "Yes"
         [] a = "additional_notes" -> "returned from travel"
         [] OTHER -> UntouchedForm[a]]
Forms == {EmptyForm, UnselectedForm, UntouchedForm, FilledForm}
BlankForms == {EmptyForm, UnselectedForm}

\* x or y of Python.
Or(x, y) == IF Truthy(x) THEN x ELSE y

\* gradio_ui.py 221-254: the keys of the mapping process_form_input builds, and the argument
\* each takes its value from.
FormKeys == (FormArgs \ {"max_temp", "chills"}) \cup {"max_temperature", "chills_shivering", "date"}
ArgOf(k) ==
    CASE k = "max_temperature" -> "max_temp"
      [] k = "chills_shivering" -> "chills"
      [] OTHER -> k
\* The mapping with every argument taken as it is, none replaced when blank.
FormPatientDataAsGiven(f) ==
    [k \in FormKeys |-> IF k = "date" THEN Today ELSE f[ArgOf(k)]]

\* gradio_ui.py 221-254: the mapping process_form_input builds from its arguments.
FormPatientData(f) ==
    [k \in FormKeys |->
       IF k = "date" THEN Today
       ELSE IF k \in {"name", "age", "gender", "duration", "max_temperature"}
       THEN Or(f[ArgOf(k)], "Not provided")
       ELSE IF k \in {"chronic_illnesses", "allergies", "current_medications",
                      "travel_history", "additional_notes"}
       THEN Or(f[ArgOf(k)], "None")
       ELSE f[ArgOf(k)]]

\* Texts that reach the pipeline from the page's text box or from input().
Descriptions == {"", "  ", "fever for three days"}

\* What the chat-completion request of the extraction may come back with: it raises, or it
\* answers with a text that is not JSON, with JSON that is not an object, or with an object.
ReplyObjects ==
    { [name |-> "Asha", age |-> "34", date |-> "Not mentioned", duration |-> "three days",
       rash_description |-> "", additional_notes |-> "Not mentioned"],
      [name |-> "Asha", date |-> "2025-01-05", rash |-> "Yes", rash_description |-> "red spots",
       original_speech |-> "as the service repeated it"],
      [date |-> "Not mentioned"] }
Replies ==
    {[kind |-> k, fields |-> NoData] : k \in {"raised", "malformed", "array"}}
    \cup {[kind |-> "object", fields |-> o] : o \in ReplyObjects}

\* json.loads of the reply's content.
json_loads(reply) ==
    CASE reply.kind = "malformed" -> [type |-> "JSONDecodeError", value |-> NoData]
      [] reply.kind = "array" -> [type |-> "list", value |-> NoData]
      [] OTHER -> [type |-> "dict", value |-> reply.fields]

\* The extraction whose catch-all fallback does not keep the text.
ExtractDroppingTextOnError(speech_text, reply) ==
    LET parsed == json_loads(reply)
        dated == IF Get(parsed.value, "date", PyNone) = "Not mentioned"
                 THEN Put(parsed.value, "date", Today) ELSE parsed.value
    IN  IF reply.kind # "raised" /\ parsed.type = "dict"
        THEN Put(dated, "original_speech", speech_text)
        ELSE IF reply.kind # "raised" /\ parsed.type = "JSONDecodeError"
        THEN [name |-> "Not extracted", age |-> "Not extracted", gender |-> "Not extracted",
              date |-> Today, additional_notes |-> speech_text, original_speech |-> speech_text]
        ELSE [name |-> "Error in extraction",
              extraction_error |-> IF reply.kind = "raised" THEN "service error"
                                   ELSE "'list' object has no attribute 'get'"]

\* live_nurse_agent.py 707-748: what extract_patient_data_from_speech returns for a reply.
\* 719-729 for a JSON object; 731-740 when json.loads raises JSONDecodeError; 741-748 when
\* the request raises or when line 722 calls .get on a value that is not a dict.
extract_patient_data_from_speech(speech_text, reply) ==
    LET parsed == json_loads(reply)
        dated == IF Get(parsed.value, "date", PyNone) = "Not mentioned"
                 THEN Put(parsed.value, "date", Today) ELSE parsed.value
    IN  IF reply.kind # "raised" /\ parsed.type = "dict"
        THEN Put(dated, "original_speech", speech_text)
        ELSE IF reply.kind # "raised" /\ parsed.type = "JSONDecodeError"
        THEN [name |-> "Not extracted", age |-> "Not extracted", gender |-> "Not extracted",
              date |-> Today, additional_notes |-> speech_text, original_speech |-> speech_text]
        ELSE [name |-> "Error in extraction", additional_notes |-> speech_text,
              original_speech |-> speech_text,
              extraction_error |-> IF reply.kind = "raised" THEN "service error"
                                   ELSE "'list' object has no attribute 'get'"]

\* What start_continuous_recording / stop_continuous_recording (297-454) leave the
\* command-line run with as speech_text.
ContinuousResults ==
    {"fever for three days", "No audio was recorded", "Error starting recording: no device",
     "Error stopping recording: device error"}

\* A pipeline handler returns; its locals are gone.
PipeReturn(c, h, o) ==
    /\ Return(c, h, o)
    /\ patient_data' = [patient_data EXCEPT ![c] = NoData]
    /\ formatted_data' = [formatted_data EXCEPT ![c] = NoText]
    /\ diagnosis' = [diagnosis EXCEPT ![c] = ""]
    /\ requests' = [requests EXCEPT ![c] = <<>>]

NotInitialized == [msg |-> <<"System not initialized properly">>]

\* gradio_ui.py 148-156: process_speech_input turns away an uninitialized UI and an empty
\* text, else goes on to the extraction.
ProcessSpeechInput(c) ==
    /\ pc[c] = "idle"
    /\ \E transcribed_text \in Descriptions :
         IF ~initialized
         THEN PipeReturn(c, "process_speech_input", NotInitialized)
         ELSE IF ~Truthy(transcribed_text)
         THEN PipeReturn(c, "process_speech_input", [msg |-> <<"No transcribed text to process">>])
         ELSE /\ Enter(c, "process_speech_input", "extract")
              /\ text' = [text EXCEPT ![c] = transcribed_text]
              /\ UNCHANGED <<res, payload, calls, sess, out, pipe>>
    /\ UNCHANGED <<setup, legacy, agent, ui, backend, worker>>

\* gradio_ui.py 180-193: process_only_speech_input does the same, and wraps the text into
\* the description it hands to the diagnosis.
ProcessOnlySpeechInput(c) ==
    /\ pc[c] = "idle"
    /\ \E transcribed_text \in Descriptions :
         IF ~initialized
         THEN PipeReturn(c, "process_only_speech_input", NotInitialized)
         ELSE IF ~Truthy(transcribed_text)
         THEN PipeReturn(c, "process_only_speech_input",
                         [msg |-> <<"No transcribed text to process">>])
         ELSE /\ Enter(c, "process_only_speech_input", "diagnose")
              /\ text' = [text EXCEPT ![c] = transcribed_text]
              /\ formatted_data' = [formatted_data EXCEPT ![c] =
                                      [raw |-> transcribed_text, date |-> Today]]
              /\ UNCHANGED <<res, payload, calls, sess, out, patient_data, diagnosis, requests>>
    /\ UNCHANGED <<setup, legacy, agent, ui, backend, worker>>

\* gradio_ui.py 216-254: process_form_input turns away an uninitialized UI, else builds the
\* mapping from its arguments.
ProcessFormInput(c) ==
    /\ pc[c] = "idle"
    /\ \E f \in Forms :
         IF ~initialized
         THEN PipeReturn(c, "process_form_input", NotInitialized)
         ELSE /\ Enter(c, "process_form_input", "format")
              /\ patient_data' = [patient_data EXCEPT ![c] = FormPatientData(f)]
              /\ UNCHANGED <<res, text, payload, calls, sess, out,
                             formatted_data, diagnosis, requests>>
    /\ UNCHANGED <<setup, legacy, agent, ui, backend, worker>>

\* live_nurse_agent.py 792, 778, 597-640: the command-line run with the speech option.
\* The agent exists (main, 830).  self.speech_enabled (enabled) is fixed at construction
\* (55-69); a microphone needs PyAudio.  Without it the text is typed; with it the
\* text is what the recording gave, or typed when that begins with "Error" / "Could not".
RunFlexibleAssessment(c) ==
    /\ pc[c] = "idle"
    /\ API_KEY
    /\ \E enabled \in BOOLEAN, typed \in Descriptions, recorded \in ContinuousResults :
         /\ enabled => PYAUDIO_AVAILABLE
         /\ text' = [text EXCEPT ![c] =
                       IF ~enabled THEN typed
                       ELSE IF StartsWith(recorded, "Error") \/ StartsWith(recorded, "Could not")
                       THEN typed
                       ELSE recorded]
    /\ Enter(c, "run_flexible_assessment", "extract")
    /\ UNCHANGED <<setup, legacy, agent, ui, backend, worker,
                   res, payload, calls, sess, out, pipe>>

\* live_nurse_agent.py 653-748 (called at 640 and at gradio_ui.py 156): one chat-completion
\* request, and the mapping made of its reply.
ExtractPatientData(c) ==
    /\ pc[c] = "extract"
    /\ requests' = [requests EXCEPT ![c] = Append(requests[c], "extract")]
    /\ \E reply \in Replies :
         patient_data' = [patient_data EXCEPT ![c] =
                            extract_patient_data_from_speech(text[c], reply)]
    /\ Goto(c, "format")
    /\ UNCHANGED <<setup, legacy, agent, ui, backend, worker,
                   handler, res, text, payload, calls, sess, out, formatted_data, diagnosis>>

\* gradio_ui.py 159-160, 257; live_nurse_agent.py 795-799: the proforma text, with the
\* original description after it: always in process_speech_input, when the mapping has the
\* key 'original_speech' in the command-line run, never in process_form_input.
FormatPatientData(c) ==
    /\ pc[c] = "format"
    /\ formatted_data' = [formatted_data EXCEPT ![c] =
         [proforma |-> format_patient_data_for_llm(patient_data[c]),
          original |->
            IF handler[c] = "process_speech_input" THEN text[c]
            ELSE IF handler[c] = "run_flexible_assessment"
                    /\ "original_speech" \in DOMAIN patient_data[c]
            THEN patient_data[c]["original_speech"]
            ELSE PyNone]]
    /\ Goto(c, "diagnose")
    /\ UNCHANGED <<setup, legacy, agent, ui, backend, worker,
                   handler, res, text, payload, calls, sess, out, patient_data, diagnosis, requests>>

\* live_nurse_agent.py 281-292: the chat-completion request of the diagnosis answers.
GenerateDiagnosis(c) ==
    /\ pc[c] = "diagnose"
    /\ requests' = [requests EXCEPT ![c] = Append(requests[c], "diagnose")]
    /\ diagnosis' = [diagnosis EXCEPT ![c] = "PROVISIONAL DIAGNOSIS AND NEXT STEPS: viral fever"]
    /\ Goto(c, "pipe_return")
    /\ UNCHANGED <<setup, legacy, agent, ui, backend, worker,
                   handler, res, text, payload, calls, sess, out, patient_data, formatted_data>>

\* live_nurse_agent.py 294-295: the request raised.
GenerateDiagnosisError(c) ==
    /\ pc[c] = "diagnose"
    /\ requests' = [requests EXCEPT ![c] = Append(requests[c], "diagnose")]
    /\ diagnosis' = [diagnosis EXCEPT ![c] = "Error generating diagnosis: service error"]
    /\ Goto(c, "pipe_return")
    /\ UNCHANGED <<setup, legacy, agent, ui, backend, worker,
                   handler, res, text, payload, calls, sess, out, patient_data, formatted_data>>

\* gradio_ui.py 165, 198, 262; live_nurse_agent.py 809-817: the diagnosis is returned.
ProcessReturn(c) ==
    /\ pc[c] = "pipe_return"
    /\ PipeReturn(c, handler[c], [msg |-> <<diagnosis[c]>>])
    /\ UNCHANGED <<setup, legacy, agent, ui, backend, worker>>

(***************************************************************************)
(* The specifications                                                      *)
(***************************************************************************)

Handler(c) ==
    \/ UIStartNotInitialized(c)
    \/ UIStartRecording(c)
    \/ StartGuard(c)
    \/ StartPyAudio(c)
    \/ StartOpen(c)
    \/ StartResetFrames(c)
    \/ StartSetFlag(c)
    \/ UIStartResult(c)
    \/ UIStartThread(c)
    \/ UIStopRecording(c)
    \/ UIStopRecordingOnlySpeech(c)
    \/ UIStopClearFlag(c)
    \/ UIStopJoin(c)
    \/ StopGuard(c)
    \/ StopClearFlag(c)
    \/ StopCloseStream(c)
    \/ StopCloseStreamError(c)
    \/ StopTerminate(c)
    \/ StopTerminateError(c)
    \/ StopCheckFrames(c)
    \/ StopWriteWav(c)
    \/ StopWriteWavError(c)
    \/ StopTranscribe(c)
    \/ StopTranscribeError(c)
    \/ StopResetFrames(c)
    \/ StopReturn(c)
    \/ UIStopResult(c)
    \/ UIStopExtract(c)
    \/ Deliver(c)

Poll(w) ==
    \/ ContinuousRecord(w)
    \/ RecordGuard(w)
    \/ RecordReadCall(w)
    \/ RecordReadData(w)
    \/ RecordReadError(w)
    \/ RecordAppend(w)

\* Handler calls one at a time, on one thread.
Next ==
    \/ \E c \in {"c1"} : Handler(c)
    \/ \E w \in Workers : Poll(w)

Spec == Init /\ [][Next]_vars

\* live_nurse_agent.py 505, with the device delivering no more than MaxChunksConc chunks.
RecordReadDataConc(w) ==
    /\ nchunks < MaxChunksConc
    /\ RecordReadData(w)

PollConc(w) ==
    \/ ContinuousRecord(w)
    \/ RecordGuard(w)
    \/ RecordReadCall(w)
    \/ RecordReadDataConc(w)
    \/ RecordReadError(w)
    \/ RecordAppend(w)

\* gradio_ui.py 68-104 and 106-136 when calls overlap: the first caller's
\* stop button is that of the assessment tab, the second caller's that of
\* the speech-only tab.
UIStopConc(c) ==
    \/ c = "c1" /\ UIStopRecording(c)
    \/ c = "c2" /\ UIStopRecordingOnlySpeech(c)

\* The handlers' steps when calls overlap.
HandlerConc(c) ==
    \/ UIStartNotInitialized(c)
    \/ UIStartRecording(c)
    \/ StartGuard(c)
    \/ StartPyAudio(c)
    \/ StartOpen(c)
    \/ StartResetFrames(c)
    \/ StartSetFlag(c)
    \/ UIStartResult(c)
    \/ UIStartThread(c)
    \/ UIStopConc(c)
    \/ UIStopClearFlag(c)
    \/ UIStopJoin(c)
    \/ StopGuard(c)
    \/ StopClearFlag(c)
    \/ StopCloseStream(c)
    \/ StopCloseStreamError(c)
    \/ StopTerminate(c)
    \/ StopTerminateError(c)
    \/ StopCheckFrames(c)
    \/ StopWriteWav(c)
    \/ StopWriteWavError(c)
    \/ StopTranscribe(c)
    \/ StopTranscribeError(c)
    \/ StopResetFrames(c)
    \/ StopReturn(c)
    \/ UIStopResult(c)
    \/ UIStopExtract(c)
    \/ Deliver(c)

\* Handler calls that may overlap, on two threads.
NextConc ==
    \/ \E c \in Ctl : HandlerConc(c)
    \/ \E w \in Workers : PollConc(w)

SpecConc == Init /\ [][NextConc]_vars

\* A handler call that has begun keeps running: the thread is scheduled, and a call into the
\* audio backend or a service returns or raises in the end.  Nothing is assumed of the
\* polling threads: one may sit in a read for ever.
Running(c) == pc[c] # "idle" /\ Handler(c)

SpecLive == Spec /\ WF_vars(Running("c1"))

\* The text pipeline, one call at a time; of the recording handlers only the start on an
\* uninitialized UI.
NextPipe ==
    \E c \in {"c1"} :
        \/ UIStartNotInitialized(c)
        \/ ProcessSpeechInput(c)
        \/ ProcessOnlySpeechInput(c)
        \/ ProcessFormInput(c)
        \/ RunFlexibleAssessment(c)
        \/ ExtractPatientData(c)
        \/ FormatPatientData(c)
        \/ GenerateDiagnosis(c)
        \/ GenerateDiagnosisError(c)
        \/ ProcessReturn(c)
        \/ Deliver(c)

SpecPipe == Init /\ [][NextPipe]_vars

\* The page as a whole: recording and pipeline handlers, called one at a time, with the
\* polling threads running concurrently.
NextAll ==
    \/ Next
    \/ NextPipe

SpecAll == Init /\ [][NextAll]_vars

(***************************************************************************)
(* The recording session, claim by claim                                   *)
(***************************************************************************)

TypeOK ==
    /\ PYAUDIO_AVAILABLE \in BOOLEAN
    /\ whisper_recording \in BOOLEAN
    /\ is_recording \in BOOLEAN
    /\ whisper_audio_stream \in {None} \cup Workers
    /\ whisper_pyaudio \in {None} \cup Workers
    /\ recording_thread \in {None} \cup Workers
    /\ openStreams \subseteq Workers
    /\ livePyAudio \subseteq Workers
    /\ nstarts \in 0..MaxSessions
    /\ nchunks \in 0..MaxChunks
    /\ Len(whisper_frames) <= MaxChunks
    /\ \A c \in Ctl : calls[c] \in 0..1
    /\ API_KEY \in BOOLEAN
    /\ initialized \in BOOLEAN
    /\ \A c \in Ctl : Len(requests[c]) <= 2

\* A polling thread appends the chunk it holds in this step.
Appends(w) == wpc[w] = "append" /\ wpc'[w] = "while"

\* C1: a chunk is appended to whisper_frames only in a state where whisper_recording is
\* true, under every interleaving of the polling thread with the stop handlers.
C1_AppendOnlyWhileActive ==
    [][\A w \in Workers : Appends(w) => whisper_recording]_vars

\* C2: at most one recording session is active and at most one input stream is open at
\* any time, for every sequence and interleaving of start and stop calls.
C2_OneStreamOpen == Cardinality(openStreams) <= 1

\* C3: start_whisper_recording returns failure when a session is already active or the
\* audio backend is unavailable, and then leaves the active flag, the frame buffer and the
\* stream handle as they were.
C3_RejectedStartChangesNothing ==
    [][\A c \in Ctl :
         (pc[c] = "start_guard" /\ pc'[c] # "start_guard"
            /\ (whisper_recording \/ ~PYAUDIO_AVAILABLE))
         => /\ pc'[c] = "ui_start_result"
            /\ res'[c][1] = FALSE
            /\ UNCHANGED <<whisper_recording, whisper_frames, whisper_audio_stream>>]_vars

\* C3's case: a start is turned away by the agent while the running session holds a chunk.
C3_Witness ==
    \E c \in Ctl :
        /\ pc[c] = "ui_start_result"
        /\ res[c] = <<FALSE, "Already recording with Whisper">>
        /\ whisper_recording
        /\ whisper_frames # <<>>

\* C4: a start with no session active and the backend available returns success, and in
\* the state right after it the flag is true, the stream is open and the buffer is empty.
C4_StartedSessionIsFresh ==
    [][\A c \in Ctl :
         (pc[c] = "start_flag" /\ pc'[c] = "ui_start_result")
         => /\ res'[c][1] = TRUE
            /\ whisper_recording'
            /\ whisper_audio_stream' \in openStreams'
            /\ whisper_frames' = <<>>]_vars

\* A stop handler of the UI is called in this step.
StopHandlers == {"stop_recording", "stop_recording_only_speech"}
StopCalled(c) ==
    /\ pc[c] = "idle"
    /\ \/ handler'[c] \in StopHandlers
       \/ pc'[c] = "returned" /\ out'[c].handler \in StopHandlers

\* C5: a stop with no session active returns a status string, appends no chunk and leaves
\* the flag, the buffer and the stream as they were, in the UI handlers and in the agent,
\* before any start and after a previous stop.
C5_StopWithoutSessionChangesNothing ==
    [][\A c \in Ctl :
         /\ (StopCalled(c) /\ ~is_recording)
            => /\ pc'[c] = "returned"
               /\ out'[c].msg = <<"Not currently recording">>
               /\ UNCHANGED <<agent, ui, backend, worker>>
         /\ (pc[c] = "stop_guard" /\ pc'[c] # "stop_guard" /\ ~whisper_recording)
            => /\ pc'[c] = "ui_stop_result"
               /\ text'[c] = "No Whisper recording in progress"
               /\ UNCHANGED <<agent, ui, backend, worker>>]_vars

\* C5's case: the agent has turned a stop away and the UI another, after a session that
\* left a chunk in the buffer.
C5_Witness ==
    \E c, d \in Ctl :
        /\ pc[c] = "ui_stop_result"
        /\ text[c] = "No Whisper recording in progress"
        /\ pc[d] = "returned"
        /\ out[d].msg = <<"Not currently recording">>
        /\ whisper_frames # <<>>

\* C6: immediately after a successful stop_whisper_recording call, one whose transcription
\* request returned, whisper_frames is empty, the transcript non-empty or empty.
C6_EmptyAfterSuccessfulStop ==
    [][\A c \in Ctl :
         (pc[c] = "stop_return" /\ pc'[c] = "ui_stop_result") => whisper_frames' = <<>>]_vars

\* C7: after a stop of an active session that captured a chunk has returned, the buffer
\* is empty, in every outcome of the call, a failed transcription included.
C7_EmptyAfterEveryStop ==
    [][\A c \in Ctl :
         (pc[c] \in {"stop_transcribe", "stop_return"} /\ pc'[c] = "ui_stop_result")
         => whisper_frames' = <<>>]_vars

\* C8: when a stop of an active session returns, the flag is false and the stream the
\* start opened is closed and released, with the PyAudio handle, in every outcome of the
\* call: a chunk captured or not, the transcription succeeded or not.
C8_StopReleasesStream ==
    \A c \in Ctl :
        (pc[c] = "ui_stop_result" /\ text[c] # "No Whisper recording in progress")
        => /\ ~whisper_recording
           /\ whisper_audio_stream = None
           /\ whisper_pyaudio = None
           /\ openStreams = {}

C10_PollAppendsOneChunk ==
    [][\A w \in Workers :
         /\ (wpc[w] = "append" /\ wpc'[w] # "append")
            => /\ whisper_frames' = whisper_frames \o <<wdata[w]>>
               /\ wpc'[w] = "while"
         /\ (wpc[w] = "read" /\ wpc'[w] = "done")
            => whisper_frames' = whisper_frames
         /\ (wpc[w] = "read" /\ wpc'[w] = "append")
            => whisper_frames' = whisper_frames /\ nchunks' = nchunks + 1
         /\ (wpc[w] = "guard" /\ wpc'[w] # "guard"
               /\ (~whisper_recording \/ whisper_audio_stream = None))
            => /\ wpc'[w] = "done"
               /\ nchunks' = nchunks
               /\ whisper_frames' = whisper_frames]_vars

\* C10's case: in an active session two chunks were appended, in the order they were read,
\* and then a read failed and ended the polling thread.
C10_Witness ==
    \E w \in Workers :
        /\ wpc[w] = "done"
        /\ whisper_recording
        /\ Len(whisper_frames) = 2
        /\ whisper_frames[1][1].n < whisper_frames[2][1].n

\* C11: the payload stop hands to the transcription service is the chunks captured in the
\* session, concatenated in capture order: all of one stream, in the order the device
\* delivered them, and no chunk a polling thread has read is missing from it.
C11_PayloadIsTheSession ==
    [][\A c \in Ctl :
         (pc[c] = "stop_wav" /\ pc'[c] = "stop_transcribe")
         => LET p == payload'[c] IN
            /\ p = Join(whisper_frames)
            /\ \A i, j \in 1..Len(p) : i < j => p[i].src = p[j].src /\ p[i].n < p[j].n
            /\ \A w \in Workers : wdata[w] # <<>> => \E i \in 1..Len(p) : p[i] = wdata[w][1]]_vars

(***************************************************************************)
(* The text pipeline, claim by claim                                       *)
(***************************************************************************)

\* The handlers that feed a transcript into the text pipeline.
TranscriptHandlers == {"process_speech_input", "process_only_speech_input",
                       "run_flexible_assessment"}

\* C12: on every path that feeds a transcript into the text pipeline, no extraction request
\* and no diagnosis request is issued for an empty transcript.
C12_EmptyTranscriptNoRequest ==
    [][\A c \in Ctl :
         (handler[c] \in TranscriptHandlers /\ requests'[c] # requests[c]) => text[c] # ""]_vars

\* The mappings of the two except branches (734, 744).
IsFallback(d) == Get(d, "name", PyNone) \in {"Not extracted", "Error in extraction"}

\* C13: when the reply to the extraction request is not valid JSON, and also when the request
\* itself fails, extraction returns a fallback mapping that holds the original text verbatim
\* under original_speech and under additional_notes, and the caller goes on with it.
C13_FallbackKeepsText ==
    [][\A c \in Ctl :
         (pc[c] = "extract" /\ pc'[c] # "extract")
         => /\ pc'[c] = "format"
            /\ \A r \in Replies :
                 r.kind # "object" => IsFallback(extract_patient_data_from_speech(text[c], r))
            /\ IsFallback(patient_data'[c])
               => /\ Get(patient_data'[c], "original_speech", PyNone) = text[c]
                  /\ Get(patient_data'[c], "additional_notes", PyNone) = text[c]]_vars

\* An extraction has fallen back on a text that is not empty.
C13_Witness ==
    \E c \in Ctl :
        /\ pc[c] = "format"
        /\ handler[c] \in {"process_speech_input", "run_flexible_assessment"}
        /\ Get(patient_data[c], "name", PyNone) = "Not extracted"
        /\ text[c] = "fever for three days"
        /\ patient_data[c]["original_speech"] = "fever for three days"

\* The proforma text is rendered from the mapping in this step.
Formats(c) == pc[c] = "format" /\ pc'[c] = "diagnose"

\* C14 as stated: format_patient_data_for_llm renders every field of the template that is
\* missing from the mapping as the placeholder 'Not provided'.
C14_EveryMissingFieldNotProvided ==
    [][\A c \in Ctl :
         Formats(c)
         => \A k \in TemplateFields :
              k \notin DOMAIN patient_data[c]
              => formatted_data'[c].proforma[k] = "Not provided"]_vars

\* C14: format_patient_data_for_llm returns a text for every mapping; a missing field is
\* rendered as 'Not provided', except additional_notes, rendered as 'None provided', and
\* rash_description and sputum_present, whose lines are left empty; a field that is present
\* is rendered as its value.
C14_MissingFieldPlaceholders ==
    [][\A c \in Ctl :
         Formats(c)
         => LET d == patient_data[c]
                p == formatted_data'[c].proforma
            IN  /\ DOMAIN p = TemplateFields
                /\ \A k \in TemplateFields \ DOMAIN d :
                     p[k] = CASE k = "additional_notes" -> "None provided"
                              [] k \in {"rash_description", "sputum_present"} -> ""
                              [] OTHER -> "Not provided"
                /\ \A k \in TemplateFields \cap DOMAIN d :
                     p[k] = IF k \in {"rash_description", "sputum_present"} /\ d[k] \in {"", PyNone}
                            THEN "" ELSE Str(d[k])]_vars

\* A mapping without additional_notes, rash_description and occupation has been rendered.
C14_Witness ==
    \E c \in Ctl :
        /\ pc[c] = "diagnose"
        /\ handler[c] # "process_only_speech_input"
        /\ {"additional_notes", "rash_description", "occupation"} \cap DOMAIN patient_data[c] = {}
        /\ formatted_data[c].proforma["additional_notes"] = "None provided"
        /\ formatted_data[c].proforma["rash_description"] = ""
        /\ formatted_data[c].proforma["occupation"] = "Not provided"

\* process_form_input is at work on a form whose fields are all blank.
BlankFormCall(c) ==
    /\ handler[c] = "process_form_input"
    /\ patient_data[c] \in {FormPatientData(f) : f \in BlankForms}

\* C15 as stated: a form with every field blank gives a prompt with exactly 35 'Not provided'
\* placeholders, and the diagnosis request is still issued, once.
C15_BlankFormThirtyFive ==
    \A c \in Ctl :
        BlankFormCall(c)
        => /\ pc[c] \in {"diagnose", "pipe_return"}
              => NotProvidedCount(formatted_data[c].proforma) = 35
           /\ pc[c] = "pipe_return" => requests[c] = <<"diagnose">>

\* C15: a form with every field blank gives a prompt with exactly 13 'Not provided'
\* placeholders (name, age, gender, duration, max_temperature, and the eight fields of the
\* template the form has no argument for), and the diagnosis request is still issued, once.
C15_BlankFormThirteen ==
    \A c \in Ctl :
        BlankFormCall(c)
        => /\ pc[c] \in {"format", "diagnose", "pipe_return"}
           /\ pc[c] \in {"diagnose", "pipe_return"}
              => /\ NotProvidedCount(formatted_data[c].proforma) = 13
                 /\ {k \in TemplateFields : formatted_data[c].proforma[k] = "Not provided"}
                    = {"name", "age", "gender", "duration", "max_temperature"}
                      \cup (NotProvidedFields \ FormKeys)
           /\ pc[c] \in {"format", "diagnose"} => requests[c] = <<>>
           /\ pc[c] = "pipe_return" => requests[c] = <<"diagnose">>

\* The diagnosis request for a blank form has been issued.
C15_Witness ==
    \E c \in Ctl :
        /\ BlankFormCall(c)
        /\ pc[c] = "pipe_return"
        /\ requests[c] = <<"diagnose">>
        /\ NotProvidedCount(formatted_data[c].proforma) = 13

\* The statements a handler thread can be at; a thread that an exception has taken out of
\* its handler is at none of them.
HandlerPositions ==
    {"idle", "returned",
     "start_guard", "start_pyaudio", "start_open", "start_reset", "start_flag",
     "ui_start_result", "ui_start_thread",
     "ui_stop_flag", "ui_stop_join", "stop_guard", "stop_flag", "stop_close", "stop_terminate",
     "stop_check", "stop_wav", "stop_transcribe", "stop_reset", "stop_return",
     "ui_stop_result", "ui_stop_extract",
     "extract", "format", "diagnose", "pipe_return"}

\* A call into the audio backend made by start_whisper_recording raises in this step.
StartFails(c) ==
    \/ pc[c] = "start_pyaudio" /\ pc'[c] \notin {"start_pyaudio", "start_open"}
    \/ pc[c] = "start_open" /\ pc'[c] \notin {"start_open", "start_reset"}

\* A call into the audio backend, the WAV writer or the transcription service made by
\* stop_whisper_recording raises in this step.
StopFails(c) ==
    \/ pc[c] = "stop_close" /\ pc'[c] \notin {"stop_close", "stop_terminate"}
    \/ pc[c] = "stop_terminate" /\ pc'[c] \notin {"stop_terminate", "stop_check"}
    \/ pc[c] = "stop_wav" /\ pc'[c] \notin {"stop_wav", "stop_transcribe"}
    \/ pc[c] = "stop_transcribe" /\ pc'[c] \notin {"stop_transcribe", "stop_reset"}

\* The read of record_audio_continuously raises in this step.
ReadFails(w) == wpc[w] = "read" /\ wpc'[w] \notin {"read", "append"}

\* C16: no exception leaves the recording, transcription and diagnosis operations or the UI
\* handlers.  A failure of the audio backend or of an external service makes
\* start_whisper_recording return false with an "Error" message, record_audio_continuously
\* return false (the polling loop ends), stop_whisper_recording return an "Error" text in
\* place of the transcript and generate_diagnosis_and_next_steps return an "Error" text; the
\* UI handler returns that message as its status.
C16_FailuresAreReturned ==
    [][/\ \A c \in Ctl :
            /\ pc'[c] \in HandlerPositions
            /\ StartFails(c)
               => /\ pc'[c] = "ui_start_result"
                  /\ res'[c][1] = FALSE
                  /\ StartsWith(res'[c][2], "Error")
            /\ StopFails(c)
               => /\ pc'[c] = "ui_stop_result"
                  /\ StartsWith(text'[c], "Error")
            /\ GenerateDiagnosisError(c) => StartsWith(diagnosis'[c], "Error")
            /\ (pc[c] = "ui_start_result" /\ pc'[c] # pc[c] /\ ~res[c][1])
               => /\ pc'[c] = "returned"
                  /\ out'[c].msg = <<"Failed to start recording: ", res[c][2]>>
            /\ (pc[c] = "ui_stop_result" /\ pc'[c] # pc[c] /\ StartsWith(text[c], "Error"))
               => /\ pc'[c] = "returned"
                  /\ out'[c].msg = <<"Recording failed: ", text[c]>>
                  /\ out'[c].transcribed = ""
            /\ (pc[c] = "pipe_return" /\ pc'[c] # pc[c] /\ StartsWith(diagnosis[c], "Error"))
               => /\ pc'[c] = "returned"
                  /\ out'[c].msg = <<diagnosis[c]>>
       /\ \A w \in Workers :
            /\ wpc'[w] \in {"unborn", "while", "guard", "call", "read", "append", "done"}
            /\ ReadFails(w) => wpc'[w] = "done" /\ wdata'[w] = wdata[w]]_vars

\* A failed transcription request has come back to the page as the status of the stop.
C16_Witness ==
    \E c \in Ctl :
        /\ pc[c] = "returned"
        /\ out[c].handler \in StopHandlers
        /\ out[c].msg = <<"Recording failed: ", "Error transcribing with Whisper: service error">>

\* C17: nothing is retried.  Within one call of a handler the transcription request, the
\* extraction request and the diagnosis request are each issued at most once, and the step
\* that issues a request, failed or not, takes the handler past it.
C17_NoRetry ==
    [][\A c \in Ctl :
         /\ calls'[c] > calls[c]
            => /\ calls[c] = 0
               /\ calls'[c] = 1
               /\ pc[c] = "stop_transcribe"
               /\ pc'[c] \in {"stop_reset", "ui_stop_result"}
         /\ requests'[c] # requests[c] /\ requests'[c] # <<>>
            => /\ Len(requests'[c]) = Len(requests[c]) + 1
               /\ \A i \in 1..Len(requests[c]) :
                    /\ requests'[c][i] = requests[c][i]
                    /\ requests[c][i] # requests'[c][Len(requests'[c])]
               /\ pc'[c] # pc[c]]_vars

\* A transcription request has failed, once, and the stop has gone on to report it.
C17_Witness ==
    \E c \in Ctl :
        /\ pc[c] = "ui_stop_result"
        /\ calls[c] = 1
        /\ text[c] = "Error transcribing with Whisper: service error"

\* The UI operations that would record or call an external service.
GuardedHandlers == {"start_recording", "process_speech_input", "process_only_speech_input",
                    "process_form_input"}

\* C18: without the credential the agent's constructor raises and the UI stays
\* uninitialized; start_recording and the three process_* handlers then return the
\* not-initialized message, and no session is started, no polling thread created and no
\* request issued.
C18_NoCredentialNothingRuns ==
    ~API_KEY
    => /\ FeverProformaNurseAgent(API_KEY) = "ValueError"
       /\ ~initialized
       /\ ~is_recording /\ ~whisper_recording
       /\ nstarts = 0 /\ openStreams = {} /\ livePyAudio = {}
       /\ whisper_audio_stream = None /\ whisper_pyaudio = None /\ recording_thread = None
       /\ \A w \in Workers : wpc[w] = "unborn"
       /\ \A c \in Ctl :
            /\ calls[c] = 0 /\ requests[c] = <<>>
            /\ pc[c] \in {"idle", "returned"}
            /\ (pc[c] = "returned" /\ out[c].handler \in GuardedHandlers)
               => out[c].msg = <<"System not initialized properly">>

\* Without the credential, a start has been turned away.
C18_Witness ==
    /\ ~API_KEY
    /\ \E c \in Ctl :
         /\ pc[c] = "returned"
         /\ out[c].handler = "start_recording"
         /\ out[c].msg = <<"System not initialized properly">>

\* The statements of the stop handlers after the flag test.
StopPositions ==
    {"ui_stop_flag", "ui_stop_join", "stop_guard", "stop_flag", "stop_close", "stop_terminate",
     "stop_check", "stop_wav", "stop_transcribe", "stop_reset", "stop_return",
     "ui_stop_result", "ui_stop_extract"}

\* C19: a stop handler that has begun always returns, whatever the polling thread does: the
\* join is bounded, and after it the handler stops the agent's session, transcribes and
\* returns; no step of the stop handler ends or alters a polling thread.
C19_StopAlwaysReturns ==
    /\ \A c \in Ctl : (pc[c] = "ui_stop_flag") ~> (pc[c] = "returned")
    /\ [][\A c \in Ctl :
            (pc[c] \in StopPositions /\ pc'[c] # pc[c]) => UNCHANGED worker]_vars

\* A stop has transcribed and returned while the polling thread of its session was still in
\* its loop.
C19_Witness ==
    \E c \in Ctl :
        /\ pc[c] = "returned"
        /\ out[c].handler \in StopHandlers
        /\ out[c].msg = <<"Recording completed with Whisper!">>
        /\ recording_thread # None
        /\ wpc[recording_thread] \in {"while", "guard", "call", "read", "append"}

\* A polling thread takes a step of its own.
WorkerStep(w) == wpc[w] # "unborn" /\ wpc'[w] # wpc[w]

\* C20: the flags are written by the handlers only.  A polling thread reads is_recording and
\* whisper_recording and writes neither; a flag goes to false only in a step of a stop
\* handler; and the race on the flags loses no audio: a chunk a polling thread read while
\* both flags were set is in the audio the stop writes to the WAV file.
C20_FlagRaceIsBenign ==
    [][/\ \A w \in Workers : WorkerStep(w) => UNCHANGED <<is_recording, whisper_recording>>
       /\ (is_recording /\ ~is_recording') \/ (whisper_recording /\ ~whisper_recording')
          => \E c \in Ctl : pc[c] \in StopPositions /\ pc'[c] # pc[c]
       /\ \A c \in Ctl :
            (pc[c] = "stop_wav" /\ pc'[c] = "stop_transcribe")
            => \A w \in Workers :
                 (wdata[w] # <<>> /\ wlive[w])
                 => \E i \in 1..Len(payload'[c]) : payload'[c][i] = wdata[w][1]]_vars

(***************************************************************************)
(* The polling threads over a device that keeps delivering                 *)
(***************************************************************************)

\* live_nurse_agent.py 505-507 once the device has delivered MaxChunks chunks: the read
\* returns one more chunk and the thread appends it and goes back to the loop test
\* (gradio_ui.py 51-55).  The buffer keeps track of the first MaxChunks chunks only.
RecordReadAgain(w) ==
    /\ wpc[w] = "read"
    /\ wstream[w] \in openStreams
    /\ nchunks = MaxChunks
    /\ wstream' = [wstream EXCEPT ![w] = None]
    /\ wpc' = [wpc EXCEPT ![w] = "while"]
    /\ UNCHANGED <<setup, legacy, pipe, agent, ui, backend, locals, wdata, wlive>>

\* gradio_ui.py 51-55: a polling thread's steps, the reads beyond MaxChunks included.
PollOn(w) ==
    \/ Poll(w)
    \/ RecordReadAgain(w)

NextPoll ==
    \/ \E c \in {"c1"} : Handler(c)
    \/ \E w \in Workers : PollOn(w)

\* Every thread that can take a step is scheduled in the end, and every read of the stream
\* returns or raises: the running handler and each polling thread are weakly fair.
SpecPoll ==
    /\ Init
    /\ [][NextPoll]_vars
    /\ WF_vars(Running("c1"))
    /\ \A w \in Workers : WF_vars(PollOn(w))

\* The thread started for session w has not finished.
Alive(w) == wpc[w] \notin {"unborn", "done"}

\* C21: once a stop handler has cleared is_recording for the session whose polling thread
\* is w (recording_thread is still w and the thread has not finished), thread w leaves its
\* loop in the end, whatever start and stop calls follow.
C21_StoppedWorkerTerminates ==
    \A w \in Workers :
        (~is_recording /\ recording_thread = w /\ Alive(w)) ~> (wpc[w] = "done")

\* C22: at most one polling thread is alive at any time, over any sequence of start_recording
\* and stop_recording calls, so that never two threads append to whisper_frames.
C22_OneWorkerAlive ==
    Cardinality({w \in Workers : Alive(w)}) <= 1

\* The session the UI started last: its polling thread and its stream carry the same number.
Current == recording_thread

\* C23: every chunk a stop serializes was read from the stream opened by the most recent
\* successful start: the audio written for transcription holds no chunk of an earlier session.
C23_SessionsIsolated ==
    \A c \in Ctl : \A i \in 1..Len(payload[c]) : payload[c][i].src = Current

\* No start or stop handler is in progress on any thread.
AtRest == \A c \in Ctl : pc[c] = "idle"

\* C24: whenever no start or stop handler is in progress, NurseAgentUI.is_recording equals
\* FeverProformaNurseAgent.whisper_recording.
C24_FlagsAgreeAtRest ==
    AtRest => (is_recording = whisper_recording)

\* Session w is running, both flags set, and its polling thread has ended: with both flags
\* set the thread passes every test of its loop, so it ended on a read that raised
\* (live_nurse_agent.py 508-510, gradio_ui.py 53-54).
ReadErrorEnded(w) ==
    /\ wpc[w] = "done"
    /\ recording_thread = w
    /\ whisper_audio_stream = w
    /\ is_recording
    /\ whisper_recording

\* C25: after a read error has ended the polling thread of a running session, the chunks
\* captured before the error stay in the buffer as they are for as long as both flags are
\* set, so that the next stop serializes exactly those chunks.
C25_ReadErrorKeepsSession ==
    [][\A w \in Workers : ReadErrorEnded(w) => whisper_frames' = whisper_frames]_vars

\* start_whisper_recording has returned the failure of the stream's open to start_recording
\* (live_nurse_agent.py 491-492, gradio_ui.py 43).
OpenFailed(c) ==
    /\ pc[c] = "ui_start_result"
    /\ res[c] = <<FALSE, "Error starting Whisper recording: open">>

\* C26: a start whose open of the audio stream fails leaves both flags false and the buffer,
\* the polling threads and recording_thread as they were, and returns a failure with the
\* start button enabled and the stop button disabled.
C26_FailedOpenChangesNothing ==
    [][\A c \in {"c1"} :
         /\ (pc[c] = "start_open" /\ pc'[c] = "ui_start_result")
              => /\ OpenFailed(c)'
                 /\ UNCHANGED <<whisper_recording, whisper_frames, ui, wpc>>
         /\ OpenFailed(c)
              => /\ ~whisper_recording /\ ~is_recording
                 /\ pc'[c] # pc[c]
                      => /\ pc'[c] = "returned"
                         /\ out'[c].msg = <<"Failed to start recording: ", res[c][2]>>
                         /\ out'[c].start_btn /\ ~out'[c].stop_btn
                         /\ UNCHANGED <<whisper_recording, whisper_frames, ui, wpc>>]_vars

\* C26 is reached: a start after the failed one has succeeded, its polling thread running,
\* while the PyAudio instance of the failed start is still live.
C26_Witness ==
    /\ nstarts = 2
    /\ is_recording /\ whisper_recording
    /\ wpc[1] = "unborn" /\ Alive(2)
    /\ 1 \in livePyAudio /\ 1 \notin openStreams

\* The texts stop_whisper_recording (live_nurse_agent.py 519-586) and
\* stop_continuous_recording (398-454) return in place of a transcript.
StopStatusMessages ==
    {"No Whisper recording in progress", "No audio data recorded",
     "No speech detected in recording", "Error transcribing with Whisper: service error",
     "Error stopping Whisper recording: stream error", "No audio was recorded",
     "Error stopping recording: device error"}

\* C27: no status or error message of a recording stop is the patient description that goes
\* into the extraction request or the diagnosis request, from the page or from the
\* command-line run.
C27_NoStatusAsDescription ==
    \A c \in Ctl : pc[c] \in {"extract", "diagnose"} => text[c] \notin StopStatusMessages

\* What stop_whisper_recording returns when the transcription request succeeded with a
\* text that is not blank (live_nurse_agent.py 565-577: transcript.strip()).
SuccessfulTranscripts == {Strip(t) : t \in Transcripts} \ {""}

\* C28: when the transcription succeeded with a non-empty transcript, stop_recording and
\* stop_recording_only_speech return that transcript as the transcribed text and report no
\* failure of the recording.
C28_TranscriptIsReturned ==
    [][\A c \in {"c1"} :
         (/\ pc[c] \in {"ui_stop_result", "ui_stop_extract"}
          /\ pc'[c] = "returned"
          /\ text[c] \in SuccessfulTranscripts)
         => /\ out'[c].transcribed = text[c]
            /\ out'[c].msg[1] # "Recording failed: "]_vars

\* The handlers that return the states of the start and stop buttons.
RecordingHandlers == {"start_recording"} \cup StopHandlers

\* C29: when a recording handler returns, the stop button is enabled and the start button
\* disabled exactly when is_recording is true; when a stop handler returns, on every path,
\* is_recording is false, start is enabled and stop is disabled.
C29_ButtonsMatchFlag ==
    [][\A c \in Ctl :
         (pc[c] # "returned" /\ pc'[c] = "returned" /\ out'[c].handler \in RecordingHandlers)
         => /\ out'[c].stop_btn = is_recording'
            /\ out'[c].start_btn = ~is_recording'
            /\ out'[c].handler \in StopHandlers => ~is_recording']_vars

(***************************************************************************)
(* The continuous recording of the command-line agent                      *)
(***************************************************************************)

\* A text is a sequence of tokens: Space, or the number a of a captured phrase, standing
\* for the words spoken in it.
Space == 0

\* str.strip(): the text without its leading and trailing whitespace.
RECURSIVE LStrip(_)
LStrip(t) == IF t # <<>> /\ Head(t) = Space THEN LStrip(Tail(t)) ELSE t

RECURSIVE RStrip(_)
RStrip(t) == IF t # <<>> /\ t[Len(t)] = Space THEN RStrip(SubSeq(t, 1, Len(t) - 1)) ELSE t

StripText(t) == RStrip(LStrip(t))

\* live_nurse_agent.py 371-374, 432-435: the text with one more chunk text, a space between.
AddChunkText(t, chunk_text) == IF t # <<>> THEN t \o <<Space>> \o chunk_text ELSE chunk_text

\* The texts of ts with a space between each two.
RECURSIVE SpaceJoin(_)
SpaceJoin(ts) ==
    IF ts = <<>> THEN <<>>
    ELSE IF Len(ts) = 1 THEN ts[1]
    ELSE ts[1] \o <<Space>> \o SpaceJoin(Tail(ts))

\* recognizer.recognize_google(audio) when it returns: the words of the phrase, the same
\* with whitespace around them, or whitespace only.
Answers == {"words", "padded", "blank"}
recognize_google(a, answer) ==
    CASE answer = "words" -> <<a>>
      [] answer = "padded" -> <<Space, a, Space>>
      [] answer = "blank" -> <<Space>>

\* What a call on the command-line agent returns: a transcript, or a status.
Transcript(t) == [kind |-> "transcript", text |-> t]
Status(m) == [kind |-> m, text |-> <<>>]

KReturn(r) ==
    /\ kpc' = "returned"
    /\ kret' = r

\* live_nurse_agent.py 826-840, 53-69: main() constructs the agent; the recognizer and the
\* microphone are set up, or speech is disabled.  A microphone needs PyAudio.
Main ==
    /\ kpc = "main"
    /\ API_KEY
    /\ \E ok \in BOOLEAN :
         /\ ok => PYAUDIO_AVAILABLE
         /\ speech_enabled' = ok
    /\ kpc' = "idle"
    /\ UNCHANGED <<is_recording_active, recorded_audio_chunks, full_transcription,
                   stop_listening, running, naudio, nlisten, kret, lpc, laudio, ltext, heard>>
    /\ UNCHANGED <<setup, agent, ui, backend, locals, worker, pipe>>

\* live_nurse_agent.py 304-305: start_continuous_recording is called.
StartContinuousRecording ==
    /\ kpc = "idle"
    /\ nlisten < MaxListeners
    /\ IF ~speech_enabled
       THEN /\ KReturn(Status("Speech recognition not available"))
            /\ heard' = heard
       ELSE /\ kpc' = "start_stop_old"
            /\ kret' = kret
            /\ heard' = <<>>
    /\ UNCHANGED <<speech_enabled, is_recording_active, recorded_audio_chunks,
                   full_transcription, stop_listening, running, naudio, nlisten,
                   lpc, laudio, ltext>>
    /\ UNCHANGED <<setup, agent, ui, backend, locals, worker, pipe>>

\* live_nurse_agent.py 313-317: the stopper of the last listener is called with
\* wait_for_stop=False; the listener thread is not waited for.
StartStopExisting ==
    /\ kpc = "start_stop_old"
    /\ running' = IF stop_listening # None
                  THEN [running EXCEPT ![stop_listening] = FALSE] ELSE running
    /\ kpc' = "start_chunks"
    /\ UNCHANGED <<speech_enabled, is_recording_active, recorded_audio_chunks,
                   full_transcription, stop_listening, naudio, nlisten, kret,
                   lpc, laudio, ltext, heard>>
    /\ UNCHANGED <<setup, agent, ui, backend, locals, worker, pipe>>

\* live_nurse_agent.py 320: self.recorded_audio_chunks = [].
StartResetChunks ==
    /\ kpc = "start_chunks"
    /\ recorded_audio_chunks' = <<>>
    /\ kpc' = "start_active"
    /\ UNCHANGED <<speech_enabled, is_recording_active, full_transcription, stop_listening,
                   running, naudio, nlisten, kret, lpc, laudio, ltext, heard>>
    /\ UNCHANGED <<setup, agent, ui, backend, locals, worker, pipe>>

\* live_nurse_agent.py 321: self.is_recording_active = True.
StartSetActive ==
    /\ kpc = "start_active"
    /\ is_recording_active' = TRUE
    /\ kpc' = "start_text"
    /\ UNCHANGED <<speech_enabled, recorded_audio_chunks, full_transcription, stop_listening,
                   running, naudio, nlisten, kret, lpc, laudio, ltext, heard>>
    /\ UNCHANGED <<setup, agent, ui, backend, locals, worker, pipe>>

\* live_nurse_agent.py 322: self.full_transcription = "".
StartResetText ==
    /\ kpc = "start_text"
    /\ full_transcription' = <<>>
    /\ kpc' = "start_listen"
    /\ UNCHANGED <<speech_enabled, is_recording_active, recorded_audio_chunks, stop_listening,
                   running, naudio, nlisten, kret, lpc, laudio, ltext, heard>>
    /\ UNCHANGED <<setup, agent, ui, backend, locals, worker, pipe>>

\* live_nurse_agent.py 334-350: the microphone is opened and listen_in_background starts a
\* listener thread and returns its stopper; or one of the calls raises.
StartListen ==
    /\ kpc = "start_listen"
    /\ nlisten' = nlisten + 1
    /\ \E ok \in BOOLEAN :
         IF ok
         THEN /\ stop_listening' = nlisten + 1
              /\ running' = [running EXCEPT ![nlisten + 1] = TRUE]
              /\ lpc' = [lpc EXCEPT ![nlisten + 1] = "listen"]
              /\ KReturn(Status("Recording started successfully"))
         ELSE /\ UNCHANGED <<stop_listening, running, lpc>>
              /\ KReturn(Status("Error starting recording: no device"))
    /\ UNCHANGED <<speech_enabled, is_recording_active, recorded_audio_chunks,
                   full_transcription, naudio, laudio, ltext, heard>>
    /\ UNCHANGED <<setup, agent, ui, backend, locals, worker, pipe>>

\* The recognizer's listener thread: while its stopper has not been called it listens for
\* a phrase; a phrase captured goes to the callback.
Listen(l) ==
    /\ lpc[l] = "listen"
    /\ IF ~running[l]
       THEN /\ lpc' = [lpc EXCEPT ![l] = "stopped"]
            /\ UNCHANGED <<naudio, laudio>>
       ELSE /\ naudio < MaxAudio
            /\ naudio' = naudio + 1
            /\ laudio' = [laudio EXCEPT ![l] = naudio + 1]
            /\ lpc' = [lpc EXCEPT ![l] = "call"]
    /\ UNCHANGED <<speech_enabled, is_recording_active, recorded_audio_chunks,
                   full_transcription, stop_listening, running, nlisten, kpc, kret,
                   ltext, heard>>
    /\ UNCHANGED <<setup, agent, ui, backend, locals, worker, pipe>>

\* The listener calls the callback unless its stopper was called meanwhile.
CallCallback(l) ==
    /\ lpc[l] = "call"
    /\ lpc' = [lpc EXCEPT ![l] = IF running[l] THEN "check" ELSE "stopped"]
    /\ laudio' = [laudio EXCEPT ![l] = IF running[l] THEN laudio[l] ELSE None]
    /\ UNCHANGED <<speech_enabled, is_recording_active, recorded_audio_chunks,
                   full_transcription, stop_listening, running, naudio, nlisten, kpc, kret,
                   ltext, heard>>
    /\ UNCHANGED <<setup, agent, ui, backend, locals, worker, pipe>>

\* live_nurse_agent.py 358: _audio_callback goes on only while is_recording_active.
CallbackCheck(l) ==
    /\ lpc[l] = "check"
    /\ lpc' = [lpc EXCEPT ![l] = IF is_recording_active THEN "store" ELSE "listen"]
    /\ laudio' = [laudio EXCEPT ![l] = IF is_recording_active THEN laudio[l] ELSE None]
    /\ UNCHANGED <<speech_enabled, is_recording_active, recorded_audio_chunks,
                   full_transcription, stop_listening, running, naudio, nlisten, kpc, kret,
                   ltext, heard>>
    /\ UNCHANGED <<setup, agent, ui, backend, locals, worker, pipe>>

\* live_nurse_agent.py 362: self.recorded_audio_chunks.append(audio).
CallbackStore(l) ==
    /\ lpc[l] = "store"
    /\ recorded_audio_chunks' = Append(recorded_audio_chunks, laudio[l])
    /\ lpc' = [lpc EXCEPT ![l] = "recognize"]
    /\ UNCHANGED <<speech_enabled, is_recording_active, full_transcription, stop_listening,
                   running, naudio, nlisten, kpc, kret, laudio, ltext, heard>>
    /\ UNCHANGED <<setup, agent, ui, backend, locals, worker, pipe>>

\* live_nurse_agent.py 366-367: the phrase is recognized; a text that is not blank is kept
\* for the append, a blank one ends the callback.
CallbackRecognize(l) ==
    /\ lpc[l] = "recognize"
    /\ \E answer \in Answers :
         LET chunk_text == recognize_google(laudio[l], answer) IN
         IF StripText(chunk_text) # <<>>
         THEN /\ ltext' = [ltext EXCEPT ![l] = chunk_text]
              /\ heard' = Append(heard, chunk_text)
              /\ lpc' = [lpc EXCEPT ![l] = "append"]
         ELSE /\ UNCHANGED <<ltext, heard>>
              /\ lpc' = [lpc EXCEPT ![l] = "listen"]
    /\ laudio' = [laudio EXCEPT ![l] = None]
    /\ UNCHANGED <<speech_enabled, is_recording_active, recorded_audio_chunks,
                   full_transcription, stop_listening, running, naudio, nlisten, kpc, kret>>
    /\ UNCHANGED <<setup, agent, ui, backend, locals, worker, pipe>>

\* live_nurse_agent.py 366, 379-383: recognize_google raises UnknownValueError or
\* RequestError; the callback ends.
CallbackRecognizeError(l) ==
    /\ lpc[l] = "recognize"
    /\ laudio' = [laudio EXCEPT ![l] = None]
    /\ lpc' = [lpc EXCEPT ![l] = "listen"]
    /\ UNCHANGED <<speech_enabled, is_recording_active, recorded_audio_chunks,
                   full_transcription, stop_listening, running, naudio, nlisten, kpc, kret,
                   ltext, heard>>
    /\ UNCHANGED <<setup, agent, ui, backend, locals, worker, pipe>>

\* live_nurse_agent.py 371-374: the chunk text is added to self.full_transcription.
CallbackAppend(l) ==
    /\ lpc[l] = "append"
    /\ full_transcription' = AddChunkText(full_transcription, ltext[l])
    /\ ltext' = [ltext EXCEPT ![l] = <<>>]
    /\ lpc' = [lpc EXCEPT ![l] = "listen"]
    /\ UNCHANGED <<speech_enabled, is_recording_active, recorded_audio_chunks, stop_listening,
                   running, naudio, nlisten, kpc, kret, laudio, heard>>
    /\ UNCHANGED <<setup, agent, ui, backend, locals, worker, pipe>>

\* live_nurse_agent.py 395-396: stop_continuous_recording is called.
StopContinuousRecording ==
    /\ kpc = "idle"
    /\ IF ~speech_enabled
       THEN KReturn(Status("Speech recognition not available"))
       ELSE /\ kpc' = "stop_active"
            /\ kret' = kret
    /\ UNCHANGED <<speech_enabled, is_recording_active, recorded_audio_chunks,
                   full_transcription, stop_listening, running, naudio, nlisten,
                   lpc, laudio, ltext, heard>>
    /\ UNCHANGED <<setup, agent, ui, backend, locals, worker, pipe>>

\* live_nurse_agent.py 400: self.is_recording_active = False.
StopClearActive ==
    /\ kpc = "stop_active"
    /\ is_recording_active' = FALSE
    /\ kpc' = "stop_listening"
    /\ UNCHANGED <<speech_enabled, recorded_audio_chunks, full_transcription, stop_listening,
                   running, naudio, nlisten, kret, lpc, laudio, ltext, heard>>
    /\ UNCHANGED <<setup, agent, ui, backend, locals, worker, pipe>>

\* live_nurse_agent.py 403-404: the stopper is called with wait_for_stop=True: it tells the
\* listener to stop, and then joins its thread.
StopListening ==
    /\ kpc = "stop_listening"
    /\ IF stop_listening # None
       THEN /\ running' = [running EXCEPT ![stop_listening] = FALSE]
            /\ kpc' = "stop_join"
       ELSE /\ running' = running
            /\ kpc' = "stop_read"
    /\ UNCHANGED <<speech_enabled, is_recording_active, recorded_audio_chunks,
                   full_transcription, stop_listening, naudio, nlisten, kret,
                   lpc, laudio, ltext, heard>>
    /\ UNCHANGED <<setup, agent, ui, backend, locals, worker, pipe>>

\* live_nurse_agent.py 404-406: the join returns when the listener thread has ended;
\* self.stop_listening = None.
StopJoin ==
    /\ kpc = "stop_join"
    /\ lpc[stop_listening] = "stopped"
    /\ stop_listening' = None
    /\ kpc' = "stop_read"
    /\ UNCHANGED <<speech_enabled, is_recording_active, recorded_audio_chunks,
                   full_transcription, running, naudio, nlisten, kret,
                   lpc, laudio, ltext, heard>>
    /\ UNCHANGED <<setup, agent, ui, backend, locals, worker, pipe>>

\* live_nurse_agent.py 412-413 and 425-447: a transcription built during the recording is
\* stripped and kept for the return.  Without one, stop recognizes the stored phrases
\* itself, each call answering or raising, joins the texts that are not blank, clears the
\* phrases and returns the joined text or a status.
StopRead ==
    /\ kpc = "stop_read"
    /\ IF full_transcription # <<>>
       THEN /\ kret' = Transcript(StripText(full_transcription))
            /\ kpc' = "stop_clean_text"
            /\ UNCHANGED recorded_audio_chunks
       ELSE IF recorded_audio_chunks # <<>>
       THEN /\ recorded_audio_chunks' = <<>>
            /\ \E answers \in [1..Len(recorded_audio_chunks) -> Answers \cup {"raises"}] :
                 LET texts == [i \in 1..Len(recorded_audio_chunks) |->
                                  IF answers[i] = "raises" THEN <<>>
                                  ELSE recognize_google(recorded_audio_chunks[i], answers[i])]
                     spoken == SelectSeq(texts, LAMBDA t : StripText(t) # <<>>)
                     combined_text == SpaceJoin(spoken)
                 IN  KReturn(IF StripText(combined_text) # <<>>
                             THEN Transcript(combined_text)
                             ELSE Status("No speech could be transcribed"))
       ELSE /\ KReturn(Status("No audio was recorded"))
            /\ UNCHANGED recorded_audio_chunks
    /\ UNCHANGED <<speech_enabled, is_recording_active, full_transcription, stop_listening,
                   running, naudio, nlisten, lpc, laudio, ltext, heard>>
    /\ UNCHANGED <<setup, agent, ui, backend, locals, worker, pipe>>

\* live_nurse_agent.py 418: self.full_transcription = "".
StopCleanText ==
    /\ kpc = "stop_clean_text"
    /\ full_transcription' = <<>>
    /\ kpc' = "stop_clean_chunks"
    /\ UNCHANGED <<speech_enabled, is_recording_active, recorded_audio_chunks, stop_listening,
                   running, naudio, nlisten, kret, lpc, laudio, ltext, heard>>
    /\ UNCHANGED <<setup, agent, ui, backend, locals, worker, pipe>>

\* live_nurse_agent.py 419-424: self.recorded_audio_chunks = []; the stripped text is
\* returned, or a status when it is empty.
StopCleanChunks ==
    /\ kpc = "stop_clean_chunks"
    /\ recorded_audio_chunks' = <<>>
    /\ KReturn(IF kret.text = <<>> THEN Status("No speech detected in recording") ELSE kret)
    /\ UNCHANGED <<speech_enabled, is_recording_active, full_transcription, stop_listening,
                   running, naudio, nlisten, lpc, laudio, ltext, heard>>
    /\ UNCHANGED <<setup, agent, ui, backend, locals, worker, pipe>>

\* live_nurse_agent.py 403-404, 449-450: the stopper raises; the error is returned.
StopListeningError ==
    /\ kpc = "stop_listening"
    /\ stop_listening # None
    /\ KReturn(Status("Error stopping recording: device error"))
    /\ UNCHANGED <<speech_enabled, is_recording_active, recorded_audio_chunks,
                   full_transcription, stop_listening, running, naudio, nlisten,
                   lpc, laudio, ltext, heard>>
    /\ UNCHANGED <<setup, agent, ui, backend, locals, worker, pipe>>

\* live_nurse_agent.py 625-629: the caller has the returned value and goes on.
KDeliver ==
    /\ kpc = "returned"
    /\ kpc' = "idle"
    /\ kret' = NoReturn
    /\ UNCHANGED <<speech_enabled, is_recording_active, recorded_audio_chunks,
                   full_transcription, stop_listening, running, naudio, nlisten,
                   lpc, laudio, ltext, heard>>
    /\ UNCHANGED <<setup, agent, ui, backend, locals, worker, pipe>>

Caller ==
    \/ Main
    \/ StartContinuousRecording
    \/ StartStopExisting
    \/ StartResetChunks
    \/ StartSetActive
    \/ StartResetText
    \/ StartListen
    \/ StopContinuousRecording
    \/ StopClearActive
    \/ StopListening
    \/ StopListeningError
    \/ StopJoin
    \/ StopRead
    \/ StopCleanText
    \/ StopCleanChunks
    \/ KDeliver

Listener(l) ==
    \/ Listen(l)
    \/ CallCallback(l)
    \/ CallbackCheck(l)
    \/ CallbackStore(l)
    \/ CallbackRecognize(l)
    \/ CallbackRecognizeError(l)
    \/ CallbackAppend(l)

\* The calling thread of the command-line agent and its listener threads.
NextLegacy ==
    \/ Caller
    \/ \E l \in Listeners : Listener(l)

SpecLegacy == Init /\ [][NextLegacy]_vars

\* C30: the transcript stop_continuous_recording returns is the space-joined concatenation,
\* in arrival order, of the non-blank chunk texts _audio_callback recognized since the most
\* recent start_continuous_recording (whitespace at its ends aside), and the transcription
\* and the chunk list are empty when it is returned; a callback that finds
\* is_recording_active false changes neither the chunk list nor the transcription.
C30_StopReturnsWhatWasHeard ==
    [][/\ (kpc # "returned" /\ kpc' = "returned" /\ kret'.kind = "transcript")
            => /\ kret'.text = StripText(SpaceJoin(heard))
               /\ full_transcription' = <<>>
               /\ recorded_audio_chunks' = <<>>
       /\ \A l \in Listeners :
            (lpc[l] = "check" /\ ~is_recording_active /\ lpc'[l] # lpc[l])
            => /\ lpc'[l] = "listen"
               /\ UNCHANGED <<recorded_audio_chunks, full_transcription>>]_vars
====
